---- MODULE Spec2Model ----
(***************************************************************************)
(* Conversational state and background jobs of the VPN storefront bot:     *)
(* the broadcast / flash-sale fan-out, the text router over the per-actor  *)
(* wizard slots, the support-ticket bridge and the load watchdog.          *)
(***************************************************************************)
EXTENDS Integers, Sequences, FiniteSets, TLC

(* ------------------------------ bounds --------------------------------- *)

\* launches (regular or flash-sale) that one run may start
MaxLaunches == 2
\* messages one actor forwards to the staff channel
MaxMsgs == 2
\* goroutines that run checkSystem: the loops started plus the ForceCheck callers
MaxThreads == 3
\* minutes the clock advances after the process started
MaxElapsed == 6
\* handlers and background tasks that run at the same time
MaxTasks == 3

(* ------------------------------ actors --------------------------------- *)

\* h.adminIDs: the staff actors
AdminIDs == {1, 2}
\* actors that are not staff
NonStaffIDs == {12}
Actors == AdminIDs \cup NonStaffIDs

isAdmin(userID) == userID \in AdminIDs

(* ------------------------------ state ---------------------------------- *)

VARIABLES
  broadcast,      \* broadcastState: isActive, waitingMsg, waitingConfirm, adminID, message
  launches,       \* one record per launch that passed its guard: the fan-out goroutine
  dbUsers,        \* users table: telegram_id column, in row order
  flashSale,      \* flashSaleState: discountPercent, endTime
  flashSessions,  \* flashSaleSessions.sessions: adminID -> session
  reader,         \* the handler that is reading the flash sale: position, values read
  now,            \* time.Now(), in minutes
  resp,           \* what the last handler answered to its sender
  userPromo,          \* userPromo.waiting: actors entering a promo code
  userInSupport,      \* support.userInSupport: actors in support mode
  adminReplyingTo,    \* support.adminReplyingTo: admin -> target actor (0: absent)
  searchWaiting,      \* adminSearch.waiting
  addBalTo,           \* adminSearch.addBalTo: admin -> target actor (0: absent)
  issueSessions,      \* issue.sessions: admin -> session (step 0: absent)
  promoSessions,      \* promoWizard.sessions: admin -> session (step 0: absent)
  promoDeleteWaiting, \* promoDelete.waiting
  tickets,        \* tracker.tickets: actor -> ticket (count 0: absent)
  staffPosts,     \* what the last forward posted to the staff channel
  closeButtons,   \* staff channel: actor -> ticket posts that still carry the close button
  dash,           \* the dashboard: its message id, the UpdateDashboard goroutine and what it read
  delivered,      \* the staff reply the last event delivered, if any
  routed,         \* the routing of the last event, if it was a message
  lastCall,       \* the storage / provisioning write the last event issued, if any
  account,        \* the users row and the subscription of the last purchase, before and after
  wd,             \* Watchdog: isRunning, lastAlertTime, stopChan closed
  threads,        \* the runLoop goroutines and the ForceCheck callers
  stopper,        \* the caller of Stop: its position in Stop
  alertLog,       \* the lastAlertTime stamps, in the order they were taken
  lateSample,     \* the loop sampled or alerted after Stop had returned
  tasks,          \* the handlers and background tasks in flight: their position among their lock calls
  store           \* PostgreSQL: the promo code's counter and activations, the balances, and the requests in flight

bcVars == <<broadcast, launches>>
flVars == <<flashSale, flashSessions, reader>>
slotVars == <<userPromo, userInSupport, adminReplyingTo, searchWaiting, addBalTo,
              issueSessions, promoSessions, promoDeleteWaiting>>
supVars == <<tickets, staffPosts, closeButtons, dash>>
obsVars == <<routed, lastCall, delivered, account>>
wdVars == <<wd, threads, stopper, alertLog, lateSample>>
restVars == <<slotVars, supVars, wdVars, obsVars, tasks, store>>

vars == <<bcVars, flVars, dbUsers, now, resp, restVars>>

\* nil *tele.Message
NoMessage == "nil"
\* the carriers OnText and OnPhoto deliver
Payloads == {"text", "photo"}

\* the zero time.Time
ZeroTime == 0
MinutesPerHour == 60

NoSession == [step |-> 0, percent |-> 0, hours |-> 0]
\* a goroutine slot that runs nothing
NoTask == [prog |-> "none", pc |-> 0, waiting |-> FALSE]
\* no handler is reading the sale
NoReader == [handler |-> "none", pc |-> "idle", originalPrice |-> 0, flashDiscount |-> 0,
             price |-> 0, active |-> FALSE, endTime |-> ZeroTime]

NoUsers == <<>>

\* absent entries of the session maps and of the ticket registry
NoIssue == [step |-> 0, productID |-> 0, days |-> 0]
NoPromo == [step |-> 0, code |-> <<>>, amount |-> 0]
NoTicket == [status |-> "none", count |-> 0]
\* the tables before any request: the promo code unused, no balances
NoStore == [activationsUsed |-> 0, activations |-> {}, balance |-> [a \in Actors |-> 0],
            reqs |-> <<>>]
\* no dashboard message yet, no UpdateDashboard goroutine
NoDash == [msgID |-> 0, spawned |-> FALSE, pc |-> "idle",
           listed |-> [a \in Actors |-> "none"], waitingCount |-> 0, totalCount |-> 0,
           listedWaiting |-> 0, shown |-> FALSE]

NoDelivery == [to |-> 0, via |-> "none", ok |-> FALSE]
NoCall == [op |-> "none", target |-> 0, amount |-> 0, code |-> <<>>]
NoRoute == [kind |-> "none", actor |-> 0, handlers |-> <<>>]
\* the last event was no purchase
NoAccount == [actor |-> 0, price |-> 0, before |-> 0, balance |-> 0, months |-> 0]

(* --------------------------- storage calls ----------------------------- *)

\* SELECT telegram_id FROM users: the rows, or an error (ok = FALSE)
GetAllUserTelegramIDs(ok) == IF ok THEN dbUsers ELSE NoUsers

\* INSERT into users when the telegram_id is not there yet
CreateUserRow(rows, u) ==
  IF \E i \in 1..Len(rows) : rows[i] = u THEN rows ELSE Append(rows, u)

(* ----------------------------- fan-out --------------------------------- *)

\* the goroutine's position after the loop header: the range loop ends when
\* every element of userIDs was visited
AfterLoopPc(kind) == IF kind = "broadcast" THEN "final" ELSE "report"

LoopPc(kind, userIDs, idx) ==
  IF idx < Len(userIDs) THEN "tick" ELSE AfterLoopPc(kind)

\* variant: the loop reads the users table again at every iteration
LoopListRequeried(l) == dbUsers

\* the slice `for _, userID := range userIDs` ranges over: the one fetched at launch
LoopList(l) == l.userIDs

NewLaunch(kind, admin, msg, pc, userIDs) ==
  [kind |-> kind, admin |-> admin, msg |-> msg, pc |-> pc,
   userIDs |-> userIDs, snap |-> userIDs, idx |-> 0,
   sent |-> 0, failed |-> 0, ticks |-> 0,
   attempts |-> <<>>, outcomes |-> <<>>,
   progress |-> 0, reports |-> 0, errs |-> 0,
   summary |-> [sent |-> 0, failed |-> 0, total |-> 0]]

\* progress update every 100 users
ProgressEvery == 100

\* <-ticker.C
TakeTick(l) == [l EXCEPT !.ticks = @ + 1, !.pc = "send"]

\* variant: a failed send is not counted
CountOutcomeSentOnly(l, ok) ==
  IF ok THEN [l EXCEPT !.sent = @ + 1] ELSE l

\* err != nil: failed++, else sent++
CountOutcome(l, ok) ==
  IF ok THEN [l EXCEPT !.sent = @ + 1] ELSE [l EXCEPT !.failed = @ + 1]

\* one iteration of `for _, userID := range userIDs` after the tick
SendOne(l, ok) ==
  LET userID == LoopList(l)[l.idx + 1]
      c == CountOutcome(l, ok)
      total == Len(LoopList(l))
  IN [c EXCEPT !.idx = @ + 1,
               !.attempts = Append(@, userID),
               !.outcomes = Append(@, ok),
               !.progress = IF (c.sent + c.failed) % ProgressEvery = 0
                               /\ total > ProgressEvery
                            THEN @ + 1 ELSE @,
               !.pc = LoopPc(l.kind, LoopList(l), l.idx + 1)]

\* the final report sent to the initiator
FinalSummary(l) == [sent |-> l.sent, failed |-> l.failed, total |-> Len(l.userIDs)]

PushReport(l) ==
  [l EXCEPT !.reports = @ + 1, !.summary = FinalSummary(l), !.pc = "done"]

\* the goroutine is in its recipient loop, or has not yet cleared the flag
Running(l) == l.pc \in {"tick", "send", "final"}

\* the enumeration failed: the initiator gets the error, nothing is sent
Abort(l) == [l EXCEPT !.errs = @ + 1, !.pc = "aborted"]

(* ------------------------------- text ---------------------------------- *)

\* a string is a sequence of one-character strings
Digits == <<"0", "1", "2", "3", "4", "5", "6", "7", "8", "9">>

IsDigit(c) == \E d \in 1..Len(Digits) : Digits[d] = c

DigitVal(c) == (CHOOSE d \in 1..Len(Digits) : Digits[d] = c) - 1

RECURSIVE FormatNat(_)
FormatNat(n) ==
  IF n < Len(Digits) THEN <<Digits[n + 1]>>
  ELSE FormatNat(n \div Len(Digits)) \o <<Digits[(n % Len(Digits)) + 1]>>

\* strconv.FormatInt(n, 10), the %d verb
FormatInt(n) == IF n < 0 THEN <<"-">> \o FormatNat(0 - n) ELSE FormatNat(n)

RECURSIVE DigitsVal(_)
DigitsVal(s) ==
  IF s = <<>> THEN 0
  ELSE DigitsVal(SubSeq(s, 1, Len(s) - 1)) * Len(Digits) + DigitVal(s[Len(s)])

AllDigits(s) == s # <<>> /\ \A i \in 1..Len(s) : IsDigit(s[i])

\* strconv.ParseInt(s, 10, 64) / strconv.Atoi: optional sign, then digits only
ParseInt(s) ==
  IF s # <<>> /\ s[1] \in {"-", "+"}
  THEN IF AllDigits(Tail(s))
       THEN [ok |-> TRUE,
             val |-> IF s[1] = "-" THEN 0 - DigitsVal(Tail(s)) ELSE DigitsVal(Tail(s))]
       ELSE [ok |-> FALSE, val |-> 0]
  ELSE IF AllDigits(s) THEN [ok |-> TRUE, val |-> DigitsVal(s)]
       ELSE [ok |-> FALSE, val |-> 0]

\* strings.TrimSpace
RECURSIVE TrimLeft(_)
TrimLeft(s) == IF s # <<>> /\ s[1] \in {" ", "\n"} THEN TrimLeft(Tail(s)) ELSE s

RECURSIVE TrimRight(_)
TrimRight(s) ==
  IF s # <<>> /\ s[Len(s)] \in {" ", "\n"}
  THEN TrimRight(SubSeq(s, 1, Len(s) - 1)) ELSE s

TrimSpace(s) == TrimRight(TrimLeft(s))

(* --------------------------- ticket tag -------------------------------- *)

\* the literal part of the pattern `#user_(\d+)`
Tag == <<"#", "u", "s", "e", "r", "_">>

\* the pattern matches at position i: the literal, then at least one digit
MatchesAt(text, i) ==
  /\ i + Len(Tag) <= Len(text)
  /\ SubSeq(text, i, i + Len(Tag) - 1) = Tag
  /\ IsDigit(text[i + Len(Tag)])

\* (\d+) is greedy: the digit run starting at position i
RECURSIVE DigitRun(_, _)
DigitRun(text, i) ==
  IF i <= Len(text) /\ IsDigit(text[i])
  THEN <<text[i]>> \o DigitRun(text, i + 1) ELSE <<>>

\* variant: the rightmost match
LastMatch(text) ==
  IF \E i \in 1..Len(text) : MatchesAt(text, i)
  THEN CHOOSE i \in 1..Len(text) :
         MatchesAt(text, i) /\ \A j \in (i + 1)..Len(text) : ~MatchesAt(text, j)
  ELSE 0

\* re.FindStringSubmatch: the leftmost match
FirstMatch(text) ==
  IF \E i \in 1..Len(text) : MatchesAt(text, i)
  THEN CHOOSE i \in 1..Len(text) :
         MatchesAt(text, i) /\ \A j \in 1..(i - 1) : ~MatchesAt(text, j)
  ELSE 0

\* extractUserIDFromTicket
extractUserIDFromTicket(text) ==
  LET i == FirstMatch(text)
  IN IF i = 0 THEN 0
     ELSE LET id == ParseInt(DigitRun(text, i + Len(Tag)))
          IN IF id.ok THEN id.val ELSE 0

\* header := fmt.Sprintf("T #user_%d\nU %s | B %.0f R\n----\n", ...)
Header(userID, usernameStr, balance) ==
  <<"T", " ">> \o Tag \o FormatInt(userID) \o <<"\n", "U", " ">> \o usernameStr
    \o <<" ", "|", " ", "B", " ">> \o FormatInt(balance) \o <<" ", "R", "\n", "-", "\n">>

\* usernameStr: "@" + username, or the placeholder when the actor has none
UsernameStr(username) ==
  IF username # <<>> THEN <<"@">> \o username ELSE <<"n", "o">>

\* the placeholder for a photo without caption
PhotoPlaceholder == <<"[", "p", "]">>

\* a message of the support group: text, caption, forward origin, the text of
\* the message it replies to; from records the actor a ticket post was
\* composed for
NoPost == [text |-> <<>>, caption |-> <<>>, originalSender |-> 0,
           parentText |-> <<>>, from |-> 0]

\* what HandleSupportUserMessage posts to the support group
ComposePost(userID, username, balance, carrier, content) ==
  LET header == Header(userID, UsernameStr(username), balance)
  IN IF carrier = "photo"
     THEN [NoPost EXCEPT !.caption = header \o (IF content # <<>> THEN content
                                                ELSE PhotoPlaceholder),
                         !.from = userID]
     ELSE [NoPost EXCEPT !.text = header \o content, !.from = userID]

\* variant: a reply without route goes to the actor of the latest ticket post
ReplyTargetLatest(replyTo) ==
  LET t1 == IF replyTo.text # <<>> THEN extractUserIDFromTicket(replyTo.text) ELSE 0
      t2 == IF t1 = 0 /\ replyTo.caption # <<>>
            THEN extractUserIDFromTicket(replyTo.caption) ELSE t1
      t3 == IF t2 = 0 /\ replyTo.originalSender # 0 THEN replyTo.originalSender ELSE t2
      t4 == IF t3 = 0 /\ replyTo.parentText # <<>>
            THEN extractUserIDFromTicket(replyTo.parentText) ELSE t3
  IN IF t4 = 0 THEN staffPosts.from ELSE t4

\* handleSupportGroupMessage: the target of a reply to replyTo
ReplyTarget(replyTo) ==
  LET t1 == IF replyTo.text # <<>> THEN extractUserIDFromTicket(replyTo.text) ELSE 0
      t2 == IF t1 = 0 /\ replyTo.caption # <<>>
            THEN extractUserIDFromTicket(replyTo.caption) ELSE t1
      t3 == IF t2 = 0 /\ replyTo.originalSender # 0 THEN replyTo.originalSender ELSE t2
  IN IF t3 = 0 /\ replyTo.parentText # <<>>
     THEN extractUserIDFromTicket(replyTo.parentText) ELSE t3

(* ------------------------------- Init ---------------------------------- *)

\* the process starts no earlier than one hour after the zero time
BootTime == MinutesPerHour

Init ==
  /\ broadcast = [isActive |-> FALSE, waitingMsg |-> FALSE, waitingConfirm |-> FALSE,
                  adminID |-> 0, message |-> NoMessage]
  /\ launches = <<>>
  /\ dbUsers = <<>>
  /\ flashSale = [discountPercent |-> 0, endTime |-> ZeroTime]
  /\ flashSessions = [a \in AdminIDs |-> NoSession]
  /\ reader = NoReader
  /\ tasks = [i \in 1..MaxTasks |-> NoTask]
  /\ store = NoStore
  /\ now = BootTime
  /\ resp = [msg |-> "none"]
  /\ userPromo = {}
  /\ userInSupport = {}
  /\ adminReplyingTo = [a \in Actors |-> 0]
  /\ searchWaiting = {}
  /\ addBalTo = [a \in Actors |-> 0]
  /\ issueSessions = [a \in Actors |-> NoIssue]
  /\ promoSessions = [a \in Actors |-> NoPromo]
  /\ promoDeleteWaiting = {}
  /\ tickets = [a \in Actors |-> NoTicket]
  /\ staffPosts = NoPost
  /\ closeButtons = [a \in Actors |-> 0]
  /\ dash = NoDash
  /\ delivered = NoDelivery
  /\ routed = NoRoute
  /\ lastCall = NoCall
  /\ account = NoAccount
  /\ wd = [isRunning |-> FALSE, lastAlertTime |-> ZeroTime, stopClosed |-> FALSE]
  /\ threads = <<>>
  /\ stopper = "idle"
  /\ alertLog = <<>>
  /\ lateSample = FALSE

(* ------------------------ broadcast handlers --------------------------- *)

\* an event that is no message, issues no write and delivers no reply
Quiet == routed' = NoRoute /\ lastCall' = NoCall /\ account' = NoAccount /\ delivered' = NoDelivery

\* variant: the wizard is armed without consulting isActive
StartBroadcastStateUnchecked(b, a) ==
  [b EXCEPT !.waitingMsg = TRUE, !.waitingConfirm = FALSE,
            !.adminID = a, !.message = NoMessage]

\* HandleAdminBroadcast: /broadcast or the admin_broadcast button
StartBroadcastState(b, a) ==
  IF b.isActive THEN b
  ELSE [b EXCEPT !.waitingMsg = TRUE, !.waitingConfirm = FALSE,
                 !.adminID = a, !.message = NoMessage]

HandleAdminBroadcast(a) ==
  /\ broadcast' = StartBroadcastState(broadcast, a)
  /\ resp' = [msg |-> IF broadcast.isActive THEN "AlreadyRunning" ELSE "SendPayload"]
  /\ Quiet
  /\ UNCHANGED <<launches, dbUsers, flashSale, flashSessions, reader, now, slotVars, supVars, wdVars, tasks, store>>

\* HandleCancelBroadcast
HandleCancelBroadcast(a) ==
  /\ broadcast' = [broadcast EXCEPT !.waitingMsg = FALSE, !.waitingConfirm = FALSE,
                                    !.adminID = 0, !.message = NoMessage]
  /\ resp' = [msg |-> "Cancelled"]
  /\ Quiet
  /\ UNCHANGED <<launches, dbUsers, flashSale, flashSessions, reader, now, slotVars, supVars, wdVars, tasks, store>>

\* HandleBroadcastMessage: the payload step, then the recipient count
BroadcastMessageState(b, a, m, dbOk) ==
  IF ~b.waitingMsg \/ b.adminID # a THEN b
  ELSE [b EXCEPT !.waitingMsg = FALSE, !.waitingConfirm = dbOk, !.message = m]

\* variant: the guard does not look at who confirms
ConfirmAllowedAnyone(b, a) ==
  b.waitingConfirm /\ b.message # NoMessage

\* the guard of HandleConfirmBroadcast
ConfirmAllowed(b, a) ==
  b.waitingConfirm /\ b.adminID = a /\ b.message # NoMessage

\* variant: the flag is not reset when the enumeration fails
LaunchFlagKept(dbOk) == TRUE

\* isActive after the launch section: set to true, and back to false when the
\* enumeration fails
LaunchFlag(dbOk) == dbOk

\* HandleConfirmBroadcast: guard, enumeration, start of the goroutine
HandleConfirmBroadcast(a, dbOk) ==
  IF ~ConfirmAllowed(broadcast, a)
  THEN /\ resp' = [msg |-> "NoMessage"]
       /\ Quiet
       /\ UNCHANGED <<broadcast, launches, dbUsers, flashSale, flashSessions, reader, now, slotVars, supVars, wdVars, tasks, store>>
  ELSE /\ Len(launches) < MaxLaunches
       /\ LET userIDs == GetAllUserTelegramIDs(dbOk)
              l == NewLaunch("broadcast", a, broadcast.message,
                             LoopPc("broadcast", userIDs, 0), userIDs)
          IN  /\ broadcast' = [broadcast EXCEPT !.waitingConfirm = FALSE,
                                                !.isActive = LaunchFlag(dbOk)]
              /\ launches' = Append(launches, IF dbOk THEN l ELSE Abort(l))
              /\ resp' = [msg |-> IF dbOk THEN "Launched" ELSE "EnumFailed"]
       /\ Quiet
       /\ UNCHANGED <<dbUsers, flashSale, flashSessions, reader, now, slotVars, supVars, wdVars, tasks, store>>

(* ------------------------- fan-out goroutine --------------------------- *)

JobTick(i) ==
  /\ i \in DOMAIN launches
  /\ launches[i].pc = "tick"
  /\ launches' = [launches EXCEPT ![i] = TakeTick(@)]
  /\ UNCHANGED <<broadcast, dbUsers, flashSale, flashSessions, reader, now, resp, restVars>>

JobSend(i, ok) ==
  /\ i \in DOMAIN launches
  /\ launches[i].pc = "send"
  /\ launches' = [launches EXCEPT ![i] = SendOne(@, ok)]
  /\ UNCHANGED <<broadcast, dbUsers, flashSale, flashSessions, reader, now, resp, restVars>>

\* variant: the goroutine ends without clearing isActive
ClearRunningKeepFlag(b) == [b EXCEPT !.message = NoMessage]

\* broadcast.isActive = false; broadcast.message = nil
ClearRunning(b) == [b EXCEPT !.isActive = FALSE, !.message = NoMessage]

JobFinal(i) ==
  /\ i \in DOMAIN launches
  /\ launches[i].pc = "final"
  /\ broadcast' = ClearRunning(broadcast)
  /\ launches' = [launches EXCEPT ![i].pc = "report"]
  /\ UNCHANGED <<dbUsers, flashSale, flashSessions, reader, now, resp, restVars>>

JobReport(i) ==
  /\ i \in DOMAIN launches
  /\ launches[i].pc = "report"
  /\ launches' = [launches EXCEPT ![i] = PushReport(@)]
  /\ UNCHANGED <<broadcast, dbUsers, flashSale, flashSessions, reader, now, resp, restVars>>

(* --------------------------- flash sale -------------------------------- *)

\* flashSaleState.Set
FlashSet(percent, hours) ==
  [discountPercent |-> percent, endTime |-> now + hours * MinutesPerHour]

\* HandleFlashSaleStart with two valid arguments: /flashsale 50 6
HandleFlashSaleStartArgs(a, percent, hours) ==
  /\ percent > 0 /\ percent <= 90 /\ hours > 0
  /\ flashSessions' = [flashSessions EXCEPT ![a] =
                         [step |-> 3, percent |-> percent, hours |-> hours]]
  /\ resp' = [msg |-> "FlashConfirmPrompt"]
  /\ Quiet
  /\ UNCHANGED <<broadcast, launches, dbUsers, flashSale, reader, now, slotVars, supVars, wdVars, tasks, store>>

\* go h.broadcastFlashSale(...)
SpawnFlash(ls, a) ==
  Append(ls, NewLaunch("flash", a, "photo", "fetch", NoUsers))

\* variant: the confirm button works without a session
FlashConfirmAlways(session) == TRUE

\* HandleFlashConfirm: exists && session.step == 3
FlashConfirmAllowed(session) == session # NoSession /\ session.step = 3

\* HandleFlashConfirm
HandleFlashConfirm(a) ==
  IF ~FlashConfirmAllowed(flashSessions[a])
  THEN /\ resp' = [msg |-> "SessionExpired"]
       /\ Quiet
       /\ UNCHANGED <<broadcast, launches, dbUsers, flashSale, flashSessions, reader, now, slotVars, supVars, wdVars, tasks, store>>
  ELSE /\ Len(launches) < MaxLaunches
       /\ flashSessions' = [flashSessions EXCEPT ![a] = NoSession]
       /\ flashSale' = FlashSet(flashSessions[a].percent, flashSessions[a].hours)
       /\ launches' = SpawnFlash(launches, a)
       /\ resp' = [msg |-> "FlashLaunched"]
       /\ Quiet
       /\ UNCHANGED <<broadcast, dbUsers, reader, now, slotVars, supVars, wdVars, tasks, store>>

\* HandleFlashQuick: the flash_quick buttons, payload "percent:hours"
HandleFlashQuick(a, percent, hours) ==
  IF percent <= 0 \/ hours <= 0
  THEN /\ resp' = [msg |-> "BadParams"]
       /\ Quiet
       /\ UNCHANGED <<broadcast, launches, dbUsers, flashSale, flashSessions, reader, now, slotVars, supVars, wdVars, tasks, store>>
  ELSE /\ Len(launches) < MaxLaunches
       /\ flashSale' = FlashSet(percent, hours)
       /\ launches' = SpawnFlash(launches, a)
       /\ resp' = [msg |-> "FlashLaunched"]
       /\ Quiet
       /\ UNCHANGED <<broadcast, dbUsers, flashSessions, reader, now, slotVars, supVars, wdVars, tasks, store>>

\* HandleFlashPercent: the flash_percent buttons start the manual flow
FlashPercentSession(percent) == [NoSession EXCEPT !.step = 2, !.percent = percent]

HandleFlashPercent(a, percent) ==
  /\ flashSessions' = [flashSessions EXCEPT ![a] = FlashPercentSession(percent)]
  /\ resp' = [msg |-> "ChooseHours"]
  /\ Quiet
  /\ UNCHANGED <<broadcast, launches, dbUsers, flashSale, reader, now, slotVars, supVars, wdVars, tasks, store>>

\* HandleFlashHours: without a session the flash-sale menu is shown again
\* (HandleFlashSaleStart with the one-element callback payload as arguments)
HandleFlashHours(a, hours) ==
  /\ flashSessions' = [flashSessions EXCEPT ![a] =
       IF @ = NoSession THEN @ ELSE [@ EXCEPT !.hours = hours, !.step = 3]]
  /\ resp' = [msg |-> IF flashSessions[a] = NoSession THEN "FlashMenu"
                      ELSE "FlashConfirmPrompt"]
  /\ Quiet
  /\ UNCHANGED <<broadcast, launches, dbUsers, flashSale, reader, now, slotVars, supVars, wdVars, tasks, store>>

\* HandleFlashCancel
HandleFlashCancel(a) ==
  /\ flashSessions' = [flashSessions EXCEPT ![a] = NoSession]
  /\ resp' = [msg |-> "AdminPanel"]
  /\ Quiet
  /\ UNCHANGED <<broadcast, launches, dbUsers, flashSale, reader, now, slotVars, supVars, wdVars, tasks, store>>

\* broadcastFlashSale up to the loop: the enumeration inside the goroutine
FlashFetched(l, dbOk) ==
  LET userIDs == GetAllUserTelegramIDs(dbOk)
  IN IF dbOk
     THEN [l EXCEPT !.userIDs = userIDs, !.snap = userIDs,
                    !.pc = LoopPc("flash", userIDs, 0)]
     ELSE Abort(l)

FlashFetch(i, dbOk) ==
  /\ i \in DOMAIN launches
  /\ launches[i].pc = "fetch"
  /\ launches' = [launches EXCEPT ![i] = FlashFetched(@, dbOk)]
  /\ UNCHANGED <<broadcast, dbUsers, flashSale, flashSessions, reader, now, resp, restVars>>

(* ------------------------- slot entry handlers ------------------------- *)

\* variant: entering key issuance keeps what the old session holds
IssueStartMerged(old) == [old EXCEPT !.step = 1]

\* &issueSession{step: 1}, whatever session the actor had
IssueStartSession(old) == [NoIssue EXCEPT !.step = 1]

\* &promoWizardSession{step: 1}, whatever session the actor had
PromoCreateSession(old) == [NoPromo EXCEPT !.step = 1]

\* variant: cancelling key issuance only rewinds the session
IssueRewound(m, a) == [m EXCEPT ![a].step = 0]

\* delete(issue.sessions, id)
IssueDelete(m, a) == [m EXCEPT ![a] = NoIssue]

\* delete(promoWizard.sessions, id)
PromoDelete(m, a) == [m EXCEPT ![a] = NoPromo]

\* delete(promoDelete.waiting, id)
WaitingDelete(waiting, a) == waiting \ {a}

\* SetUserPromoMode
SetUserPromoMode(waiting, userID, active) ==
  IF active THEN waiting \cup {userID} ELSE waiting \ {userID}

\* SetUserSupportMode
SetUserSupportMode(inSupport, userID, active) ==
  IF active THEN inSupport \cup {userID} ELSE inSupport \ {userID}

\* HandlePromoEnter: SetUserPromoMode(sender, true)
HandlePromoEnter(a) ==
  /\ userPromo' = SetUserPromoMode(userPromo, a, TRUE)
  /\ resp' = [msg |-> "EnterPromo"]
  /\ Quiet
  /\ UNCHANGED <<bcVars, flVars, dbUsers, now, supVars, wdVars, userInSupport, adminReplyingTo, searchWaiting, addBalTo, issueSessions, promoSessions, promoDeleteWaiting, tasks, store>>

\* HandleCreateTicket / HandleTicketReply: SetUserSupportMode(sender, true)
HandleCreateTicket(a) ==
  /\ userInSupport' = SetUserSupportMode(userInSupport, a, TRUE)
  /\ resp' = [msg |-> "DescribeProblem"]
  /\ Quiet
  /\ UNCHANGED <<bcVars, flVars, dbUsers, now, supVars, wdVars, userPromo, adminReplyingTo, searchWaiting, addBalTo, issueSessions, promoSessions, promoDeleteWaiting, tasks, store>>

\* HandleExitSupport / HandleBackToSupportHub: SetUserSupportMode(sender, false)
HandleExitSupport(a) ==
  /\ userInSupport' = SetUserSupportMode(userInSupport, a, FALSE)
  /\ resp' = [msg |-> "SupportHub"]
  /\ Quiet
  /\ UNCHANGED <<bcVars, flVars, dbUsers, now, supVars, wdVars, userPromo, adminReplyingTo, searchWaiting, addBalTo, issueSessions, promoSessions, promoDeleteWaiting, tasks, store>>

\* SetAdminReplyTarget: a target <= 0 deletes the entry
SetAdminReplyTarget(m, adminID, userID) ==
  [m EXCEPT ![adminID] = IF userID > 0 THEN userID ELSE 0]

\* HandleSupportReplyStart: the support_reply button, payload = user id
HandleSupportReplyStart(a, data) ==
  /\ adminReplyingTo' =
       IF ParseInt(data).ok
       THEN SetAdminReplyTarget(adminReplyingTo, a, ParseInt(data).val)
       ELSE adminReplyingTo
  /\ resp' = [msg |-> IF ParseInt(data).ok THEN "EnterReply" ELSE "Error"]
  /\ Quiet
  /\ UNCHANGED <<bcVars, flVars, dbUsers, now, supVars, wdVars, userPromo, userInSupport, searchWaiting, addBalTo, issueSessions, promoSessions, promoDeleteWaiting, tasks, store>>

\* HandleSupportCancelReply: SetAdminReplyTarget(sender, 0)
HandleSupportCancelReply(a) ==
  /\ adminReplyingTo' = SetAdminReplyTarget(adminReplyingTo, a, 0)
  /\ resp' = [msg |-> "AdminPanel"]
  /\ Quiet
  /\ UNCHANGED <<bcVars, flVars, dbUsers, now, supVars, wdVars, userPromo, userInSupport, searchWaiting, addBalTo, issueSessions, promoSessions, promoDeleteWaiting, tasks, store>>

\* HandleStopSupport: an actor outside support mode is only told so
HandleStopSupport(a) ==
  /\ userInSupport' = IF a \in userInSupport
                       THEN SetUserSupportMode(userInSupport, a, FALSE)
                       ELSE userInSupport
  /\ resp' = [msg |-> IF a \in userInSupport THEN "SupportLeft" ELSE "NotInSupport"]
  /\ Quiet
  /\ UNCHANGED <<bcVars, flVars, dbUsers, now, supVars, wdVars, userPromo, adminReplyingTo, searchWaiting, addBalTo, issueSessions, promoSessions, promoDeleteWaiting, tasks, store>>

\* HandleAdminFindUserStart
HandleAdminFindUserStart(a) ==
  /\ searchWaiting' = searchWaiting \cup {a}
  /\ addBalTo' = [addBalTo EXCEPT ![a] = 0]
  /\ resp' = [msg |-> "EnterUserID"]
  /\ Quiet
  /\ UNCHANGED <<bcVars, flVars, dbUsers, now, supVars, wdVars, userPromo, userInSupport, adminReplyingTo, issueSessions, promoSessions, promoDeleteWaiting, tasks, store>>

\* HandleAdminAddBalStart with the user id in the button payload, then
\* promptAddBalAmount: the slot stays only when the user exists
HandleAdminAddBalStart(a, data, found) ==
  LET id == ParseInt(data)
      prompt == id.ok /\ id.val > 0
  IN /\ searchWaiting' = IF prompt THEN searchWaiting \ {a} ELSE searchWaiting \cup {a}
     /\ addBalTo' = [addBalTo EXCEPT ![a] = IF prompt /\ found THEN id.val ELSE 0]
     /\ resp' = [msg |-> IF ~prompt THEN "EnterUserID"
                         ELSE IF found THEN "EnterAmount" ELSE "UserNotFound"]
     /\ Quiet
     /\ UNCHANGED <<bcVars, flVars, dbUsers, now, supVars, wdVars, userPromo, userInSupport, adminReplyingTo, issueSessions, promoSessions, promoDeleteWaiting, tasks, store>>

\* HandleIssueStart: issue.sessions[sender] = &issueSession{step: 1}
HandleIssueStart(a) ==
  /\ issueSessions' = [issueSessions EXCEPT ![a] = IssueStartSession(@)]
  /\ resp' = [msg |-> "ChooseProduct"]
  /\ Quiet
  /\ UNCHANGED <<bcVars, flVars, dbUsers, now, supVars, wdVars, userPromo, userInSupport, adminReplyingTo, searchWaiting, addBalTo, promoSessions, promoDeleteWaiting, tasks, store>>

\* HandleIssueProduct: without a session the flow restarts
HandleIssueProduct(a, productID) ==
  /\ issueSessions' = [issueSessions EXCEPT ![a] =
       IF @.step = 0 THEN IssueStartSession(@)
       ELSE [@ EXCEPT !.productID = productID, !.step = 2]]
  /\ resp' = [msg |-> IF issueSessions[a].step = 0 THEN "ChooseProduct" ELSE "ChooseDays"]
  /\ Quiet
  /\ UNCHANGED <<bcVars, flVars, dbUsers, now, supVars, wdVars, userPromo, userInSupport, adminReplyingTo, searchWaiting, addBalTo, promoSessions, promoDeleteWaiting, tasks, store>>

\* HandleIssueDays: without a session the flow restarts
HandleIssueDays(a, days) ==
  /\ issueSessions' = [issueSessions EXCEPT ![a] =
       IF @.step = 0 THEN IssueStartSession(@)
       ELSE [@ EXCEPT !.days = days, !.step = 3]]
  /\ resp' = [msg |-> IF issueSessions[a].step = 0 THEN "ChooseProduct" ELSE "EnterUserID"]
  /\ Quiet
  /\ UNCHANGED <<bcVars, flVars, dbUsers, now, supVars, wdVars, userPromo, userInSupport, adminReplyingTo, searchWaiting, addBalTo, promoSessions, promoDeleteWaiting, tasks, store>>

\* HandleIssueNoUser: a key for the admin; off step 3 the flow restarts
HandleIssueNoUser(a, opOk) ==
  /\ issueSessions' = [issueSessions EXCEPT ![a] =
       IF @.step # 3 THEN IssueStartSession(@) ELSE NoIssue]
  /\ lastCall' = IF issueSessions[a].step = 3 /\ opOk
                 THEN [op |-> "GiftSubscription", target |-> a,
                       amount |-> issueSessions[a].days, code |-> <<>>]
                 ELSE NoCall
  /\ resp' = [msg |-> IF issueSessions[a].step # 3 THEN "ChooseProduct"
                      ELSE IF opOk THEN "KeyCreated" ELSE "KeyError"]
  /\ routed' = NoRoute /\ delivered' = NoDelivery /\ account' = NoAccount
  /\ UNCHANGED <<bcVars, flVars, dbUsers, now, supVars, wdVars, userPromo, userInSupport, adminReplyingTo, searchWaiting, addBalTo, promoSessions, promoDeleteWaiting, tasks, store>>

\* HandleIssueCancel
HandleIssueCancel(a) ==
  /\ issueSessions' = IssueDelete(issueSessions, a)
  /\ resp' = [msg |-> "AdminPanel"]
  /\ Quiet
  /\ UNCHANGED <<bcVars, flVars, dbUsers, now, supVars, wdVars, userPromo, userInSupport, adminReplyingTo, searchWaiting, addBalTo, promoSessions, promoDeleteWaiting, tasks, store>>

\* HandleAdminPromoCreate: promoWizard.sessions[sender] = &promoWizardSession{step: 1}
HandleAdminPromoCreate(a) ==
  /\ promoSessions' = [promoSessions EXCEPT ![a] = PromoCreateSession(@)]
  /\ resp' = [msg |-> "EnterCode"]
  /\ Quiet
  /\ UNCHANGED <<bcVars, flVars, dbUsers, now, supVars, wdVars, userPromo, userInSupport, adminReplyingTo, searchWaiting, addBalTo, issueSessions, promoDeleteWaiting, tasks, store>>

\* HandleAdminPromoDelete
HandleAdminPromoDelete(a) ==
  /\ promoDeleteWaiting' = promoDeleteWaiting \cup {a}
  /\ resp' = [msg |-> "EnterCodeToDelete"]
  /\ Quiet
  /\ UNCHANGED <<bcVars, flVars, dbUsers, now, supVars, wdVars, userPromo, userInSupport, adminReplyingTo, searchWaiting, addBalTo, issueSessions, promoSessions, tasks, store>>

\* HandleAdminPromoCancel: leaves the wizard and the delete prompt
HandleAdminPromoCancel(a) ==
  /\ promoSessions' = PromoDelete(promoSessions, a)
  /\ promoDeleteWaiting' = WaitingDelete(promoDeleteWaiting, a)
  /\ resp' = [msg |-> "PromoMenu"]
  /\ Quiet
  /\ UNCHANGED <<bcVars, flVars, dbUsers, now, supVars, wdVars, userPromo, userInSupport, adminReplyingTo, searchWaiting, addBalTo, issueSessions, tasks, store>>

(* ------------------------------ router --------------------------------- *)

\* variant: the promo-entry test does not look at the actor's role
RoutePromoAnyone(a) ==
  IF a \in userPromo THEN <<"HandleUserPromoInput">>
  ELSE IF a \in userInSupport THEN <<"HandleSupportUserMessage">>
  ELSE IF ~isAdmin(a) THEN <<>>
  ELSE IF adminReplyingTo[a] > 0 THEN <<"HandleSupportAdminReply">>
  ELSE IF broadcast.waitingMsg /\ broadcast.adminID = a THEN <<"HandleBroadcastMessage">>
  ELSE IF addBalTo[a] > 0 THEN <<"HandleAdminAddBalAmount">>
  ELSE IF a \in searchWaiting THEN <<"HandleAdminFindUserInput">>
  ELSE IF issueSessions[a].step = 3 THEN <<"HandleIssueUserID">>
  ELSE IF promoSessions[a].step # 0 THEN <<"HandleAdminPromoWizardInput">>
  ELSE IF a \in promoDeleteWaiting THEN <<"HandleAdminPromoDeleteInput">>
  ELSE <<>>

\* variant: the support-mode test comes before the promo-entry test
RouteSupportFirst(a) ==
  IF a \in userInSupport THEN <<"HandleSupportUserMessage">>
  ELSE IF ~isAdmin(a) /\ a \in userPromo THEN <<"HandleUserPromoInput">>
  ELSE IF ~isAdmin(a) THEN <<>>
  ELSE IF adminReplyingTo[a] > 0 THEN <<"HandleSupportAdminReply">>
  ELSE IF broadcast.waitingMsg /\ broadcast.adminID = a THEN <<"HandleBroadcastMessage">>
  ELSE IF addBalTo[a] > 0 THEN <<"HandleAdminAddBalAmount">>
  ELSE IF a \in searchWaiting THEN <<"HandleAdminFindUserInput">>
  ELSE IF issueSessions[a].step = 3 THEN <<"HandleIssueUserID">>
  ELSE IF promoSessions[a].step # 0 THEN <<"HandleAdminPromoWizardInput">>
  ELSE IF a \in promoDeleteWaiting THEN <<"HandleAdminPromoDeleteInput">>
  ELSE <<>>

\* the OnText closure for a chat other than the support group: the handlers it
\* calls, in call order (every branch returns)
Route(a) ==
  IF ~isAdmin(a) /\ a \in userPromo THEN <<"HandleUserPromoInput">>
  ELSE IF a \in userInSupport THEN <<"HandleSupportUserMessage">>
  ELSE IF ~isAdmin(a) THEN <<>>
  ELSE IF adminReplyingTo[a] > 0 THEN <<"HandleSupportAdminReply">>
  ELSE IF broadcast.waitingMsg /\ broadcast.adminID = a THEN <<"HandleBroadcastMessage">>
  ELSE IF addBalTo[a] > 0 THEN <<"HandleAdminAddBalAmount">>
  ELSE IF a \in searchWaiting THEN <<"HandleAdminFindUserInput">>
  ELSE IF issueSessions[a].step = 3 THEN <<"HandleIssueUserID">>
  ELSE IF promoSessions[a].step # 0 THEN <<"HandleAdminPromoWizardInput">>
  ELSE IF a \in promoDeleteWaiting THEN <<"HandleAdminPromoDeleteInput">>
  ELSE <<>>

\* the OnPhoto closure for a chat other than the support group
RoutePhoto(a) ==
  IF a \in userInSupport THEN <<"HandleSupportUserMessage">>
  ELSE IF broadcast.waitingMsg /\ broadcast.adminID = a /\ isAdmin(a)
       THEN <<"HandleBroadcastMessage">>
  ELSE <<>>

\* strings.ToUpper on the letters the inputs use
LowerCase == <<"a", "b", "c">>
UpperCase == <<"A", "B", "C">>

ToUpperChar(c) ==
  IF \E i \in 1..Len(LowerCase) : LowerCase[i] = c
  THEN UpperCase[CHOOSE i \in 1..Len(LowerCase) : LowerCase[i] = c]
  ELSE c

ToUpper(s) == [i \in 1..Len(s) |-> ToUpperChar(s[i])]

\* strconv.ParseFloat on decimal literals without fraction or exponent
ParseFloat(s) == ParseInt(s)

\* limits of HandleAdminPromoWizardInput and HandleUserPromoInput
MinCodeLen == 3
MaxCodeLen == 20

\* variant: the session outlives a creation that failed
PromoWizardStepKeepFailed(session, text, e) ==
  LET input == TrimSpace(text)
  IN CASE session.step = 1 ->
            IF Len(input) < MinCodeLen \/ Len(input) > MaxCodeLen \/ e.found
            THEN session
            ELSE [session EXCEPT !.code = ToUpper(input), !.step = 2]
       [] session.step = 2 ->
            IF ~ParseFloat(input).ok \/ ParseFloat(input).val <= 0
            THEN session
            ELSE [session EXCEPT !.amount = ParseFloat(input).val, !.step = 3]
       [] session.step = 3 ->
            IF ~ParseInt(input).ok \/ ParseInt(input).val <= 0 \/ ~e.opOk
            THEN session
            ELSE NoPromo
       [] OTHER -> session

\* HandleAdminPromoWizardInput: the session after one input
\* (e.found: GetPromoByCode finds the code; a valid step 3 deletes the session)
PromoWizardStep(session, text, e) ==
  LET input == TrimSpace(text)
  IN CASE session.step = 1 ->
            IF Len(input) < MinCodeLen \/ Len(input) > MaxCodeLen \/ e.found
            THEN session
            ELSE [session EXCEPT !.code = ToUpper(input), !.step = 2]
       [] session.step = 2 ->
            IF ~ParseFloat(input).ok \/ ParseFloat(input).val <= 0
            THEN session
            ELSE [session EXCEPT !.amount = ParseFloat(input).val, !.step = 3]
       [] session.step = 3 ->
            IF ~ParseInt(input).ok \/ ParseInt(input).val <= 0
            THEN session
            ELSE NoPromo
       [] OTHER -> session

\* variant: the upsert counts the message and leaves the status alone
AddOrUpdateTicketCountOnly(t, userID) == [t EXCEPT ![userID].count = @ + 1]

\* tracker.AddOrUpdateTicket
AddOrUpdateTicket(t, userID) ==
  [t EXCEPT ![userID] = [status |-> "waiting", count |-> @.count + 1]]

\* variant: the status is written whether or not the ticket exists
SetTicketRepliedAlways(t, userID) == [t EXCEPT ![userID].status = "replied"]

\* tracker.SetTicketReplied
SetTicketReplied(t, userID) ==
  IF userID \in DOMAIN t /\ t[userID].count > 0
  THEN [t EXCEPT ![userID].status = "replied"] ELSE t

\* tracker.RemoveTicket
RemoveTicket(t, userID) == [t EXCEPT ![userID] = NoTicket]

\* go tracker.UpdateDashboard(): an update goroutine waits to run
SpawnUpdate(d) == [d EXCEPT !.spawned = TRUE]

\* delete(t.tickets, userID) as seen by an update goroutine that holds the
\* pointer of the deleted ticket: the object keeps the status it had
Detach(d, t, userID) ==
  [d EXCEPT !.listed[userID] = IF @ = "live" THEN t[userID].status ELSE @]

\* the storage / provisioning write a step handler issues for this input
WriteCall(h, a, text, e) ==
  LET input == TrimSpace(text)
  IN CASE h = "HandleUserPromoInput" ->
            IF Len(input) >= MinCodeLen /\ e.dbOk /\ e.opOk
            THEN [op |-> "ActivatePromoForUser", target |-> a, amount |-> 0, code |-> <<>>]
            ELSE NoCall
       [] h = "HandleAdminAddBalAmount" ->
            IF ParseFloat(input).ok /\ ParseFloat(input).val > 0 /\ e.opOk
            THEN [op |-> "AddUserBalance", target |-> addBalTo[a],
                  amount |-> ParseFloat(input).val, code |-> <<>>]
            ELSE NoCall
       [] h = "HandleIssueUserID" ->
            IF ParseInt(input).ok /\ e.opOk
            THEN [op |-> "GiftSubscription", target |-> ParseInt(input).val,
                  amount |-> issueSessions[a].days, code |-> <<>>]
            ELSE NoCall
       [] h = "HandleAdminPromoWizardInput" ->
            IF promoSessions[a].step = 3 /\ ParseInt(input).ok
               /\ ParseInt(input).val > 0 /\ e.opOk
            THEN [op |-> "CreatePromoCode", target |-> ParseInt(input).val,
                  amount |-> promoSessions[a].amount, code |-> promoSessions[a].code]
            ELSE NoCall
       [] h = "HandleAdminPromoDeleteInput" ->
            IF e.found /\ e.opOk
            THEN [op |-> "DeletePromoCode", target |-> a, amount |-> 0, code |-> <<>>]
            ELSE NoCall
       [] OTHER -> NoCall

\* GetOrCreateUser in HandleUserPromoInput and HandleSupportUserMessage
RowsAfter(h, a, text, e) ==
  IF e.dbOk /\ (h = "HandleSupportUserMessage"
                \/ (h = "HandleUserPromoInput" /\ Len(TrimSpace(text)) >= MinCodeLen))
  THEN CreateUserRow(dbUsers, a) ELSE dbUsers

\* what a step handler answers
Answer(h, e) ==
  CASE h = "none" -> "none"
    [] h = "HandleSupportUserMessage" -> IF e.sendOk THEN "Forwarded" ELSE "SendError"
    [] h = "HandleSupportAdminReply" -> IF e.sendOk THEN "ReplySent" ELSE "ReplyFailed"
    [] h = "HandleBroadcastMessage" -> IF e.dbOk THEN "ConfirmPrompt" ELSE "EnumFailed"
    [] OTHER -> h

\* the effects of the handler the router picked, for a text or a photo event
Dispatch(kind, hs, a, content, e) ==
  LET h == IF hs = <<>> THEN "none" ELSE hs[1]
      forwarded == h = "HandleSupportUserMessage" /\ e.sendOk
  IN /\ forwarded => (tickets[a].count < MaxMsgs /\ closeButtons[a] < MaxMsgs)
     /\ routed' = [kind |-> kind, actor |-> a, handlers |-> hs]
     /\ userPromo' = IF h = "HandleUserPromoInput"
                     THEN SetUserPromoMode(userPromo, a, FALSE) ELSE userPromo
     /\ dbUsers' = RowsAfter(h, a, content, e)
     /\ staffPosts' = IF forwarded
                      THEN ComposePost(a, e.username,
                                       IF e.dbOk THEN e.balance ELSE 0, kind, content)
                      ELSE staffPosts
     /\ closeButtons' = IF forwarded THEN [closeButtons EXCEPT ![a] = @ + 1]
                         ELSE closeButtons
     /\ tickets' = IF forwarded THEN AddOrUpdateTicket(tickets, a) ELSE tickets
     /\ dash' = IF forwarded THEN SpawnUpdate(dash) ELSE dash
     /\ adminReplyingTo' = IF h = "HandleSupportAdminReply"
                           THEN SetAdminReplyTarget(adminReplyingTo, a, 0)
                           ELSE adminReplyingTo
     /\ delivered' = IF h = "HandleSupportAdminReply"
                     THEN [to |-> adminReplyingTo[a], via |-> "direct", ok |-> e.sendOk]
                     ELSE NoDelivery
     /\ broadcast' = IF h = "HandleBroadcastMessage"
                     THEN BroadcastMessageState(broadcast, a, kind, e.dbOk)
                     ELSE broadcast
     /\ addBalTo' = IF h = "HandleAdminAddBalAmount"
                    THEN [addBalTo EXCEPT ![a] = 0] ELSE addBalTo
     /\ searchWaiting' = IF h = "HandleAdminFindUserInput"
                         THEN searchWaiting \ {a} ELSE searchWaiting
     /\ issueSessions' = IF h = "HandleIssueUserID"
                         THEN IssueDelete(issueSessions, a) ELSE issueSessions
     /\ promoSessions' = IF h = "HandleAdminPromoWizardInput"
                         THEN [promoSessions EXCEPT ![a] = PromoWizardStep(@, content, e)]
                         ELSE promoSessions
     /\ promoDeleteWaiting' = IF h = "HandleAdminPromoDeleteInput"
                              THEN WaitingDelete(promoDeleteWaiting, a)
                              ELSE promoDeleteWaiting
     /\ lastCall' = WriteCall(h, a, content, e)
     /\ account' = NoAccount
     /\ resp' = [msg |-> Answer(h, e)]
     /\ UNCHANGED <<launches, flVars, now, userInSupport, wdVars, tasks, store>>

\* a text message in a private chat
OnText(a, text, e) == Dispatch("text", Route(a), a, text, e)

\* a photo message in a private chat, with its caption
OnPhoto(a, caption, e) == Dispatch("photo", RoutePhoto(a), a, caption, e)

\* handleSupportGroupMessage: a staff member replies to replyTo in the support group
handleSupportGroupMessage(admin, replyTo, sendOk) ==
  LET targetUserID == ReplyTarget(replyTo)
  IN /\ delivered' = IF targetUserID = 0 THEN [to |-> 0, via |-> "dropped", ok |-> FALSE]
                     ELSE [to |-> targetUserID, via |-> "group", ok |-> sendOk]
     /\ tickets' = IF targetUserID # 0 /\ sendOk
                   THEN SetTicketReplied(tickets, targetUserID) ELSE tickets
     /\ dash' = IF targetUserID # 0 /\ sendOk THEN SpawnUpdate(dash) ELSE dash
     /\ routed' = NoRoute /\ lastCall' = NoCall /\ account' = NoAccount
     /\ resp' = [msg |-> "none"]
     /\ UNCHANGED <<bcVars, flVars, dbUsers, now, slotVars, staffPosts, closeButtons, wdVars, tasks, store>>

\* handleSupportGroupMessage for a message that replies to nothing: ignored
handleSupportGroupNoReply(admin) ==
  /\ Quiet
  /\ resp' = [msg |-> "none"]
  /\ UNCHANGED <<bcVars, flVars, dbUsers, now, slotVars, supVars, wdVars, tasks, store>>

\* adminNotification of HandleTicketSolve: "closed by user", username, tag
ClosedNotice(userID, usernameStr) ==
  <<"C", " ">> \o usernameStr \o <<" ">> \o Tag \o FormatInt(userID)

\* HandleTicketSolve: the actor closes the own ticket; the support group is
\* told, and the actor's message is edited whatever became of that
HandleTicketSolve(a, e) ==
  /\ userInSupport' = SetUserSupportMode(userInSupport, a, FALSE)
  /\ tickets' = RemoveTicket(tickets, a)
  /\ dash' = SpawnUpdate(Detach(dash, tickets, a))
  /\ staffPosts' = IF e.sendOk
                   THEN [NoPost EXCEPT !.text = ClosedNotice(a, UsernameStr(e.username)),
                                       !.from = a]
                   ELSE staffPosts
  /\ resp' = [msg |-> "TicketClosed"]
  /\ Quiet
  /\ UNCHANGED <<bcVars, flVars, dbUsers, now, closeButtons, wdVars, userPromo, adminReplyingTo, searchWaiting, addBalTo, issueSessions, promoSessions, promoDeleteWaiting, tasks, store>>

\* HandleAdminCloseTicket: the close button of one of the actor's ticket
\* posts, payload = user id; the actor is notified and the post is edited to
\* its closed form, which takes the button away
HandleAdminCloseTicket(admin, data, sendOk, editOk) ==
  LET id == ParseInt(data)
  IN IF ~id.ok
     THEN /\ resp' = [msg |-> "none"]
          /\ Quiet
          /\ UNCHANGED <<bcVars, flVars, dbUsers, now, slotVars, supVars, wdVars, tasks, store>>
     ELSE /\ id.val \in Actors /\ closeButtons[id.val] > 0
          /\ userInSupport' = SetUserSupportMode(userInSupport, id.val, FALSE)
          /\ tickets' = RemoveTicket(tickets, id.val)
          /\ dash' = SpawnUpdate(Detach(dash, tickets, id.val))
          /\ delivered' = [to |-> id.val, via |-> "close", ok |-> sendOk]
          /\ closeButtons' = IF editOk THEN [closeButtons EXCEPT ![id.val] = @ - 1]
                             ELSE closeButtons
          /\ routed' = NoRoute /\ lastCall' = NoCall /\ account' = NoAccount
          /\ resp' = [msg |-> IF editOk THEN "PostClosed" ELSE "EditError"]
          /\ UNCHANGED <<bcVars, flVars, dbUsers, now, staffPosts, wdVars, userPromo, adminReplyingTo, searchWaiting, addBalTo, issueSessions, promoSessions, promoDeleteWaiting, tasks, store>>

(* ----------------------------- watchdog -------------------------------- *)

\* DefaultWatchdogConfig
CPUThreshold == 85
NetworkThreshold == 400
\* AlertCooldown: 5 * time.Minute
AlertCooldown == 5

\* the samples GetSystemStats may return: CPU percent, inbound Mbps
Samples == {[cpu |-> 50, rx |-> 100], [cpu |-> 85, rx |-> 100],
            [cpu |-> 50, rx |-> 400], [cpu |-> 90, rx |-> 500]}

\* variant: only the CPU threshold counts
BreachCpuOnly(stats) == stats.cpu >= CPUThreshold

\* cpuAlert || networkAlert
Breach(stats) == stats.cpu >= CPUThreshold \/ stats.rx >= NetworkThreshold

\* variant: the gate admits every breach
CooldownIgnored(last, t) == TRUE

\* !(time.Since(w.lastAlertTime) < w.config.AlertCooldown)
CooldownPassed(last, t) == ~(t - last < AlertCooldown)

\* where a goroutine continues when checkSystem returns
AfterCheck(kind) == IF kind = "loop" THEN "select" ELSE "done"

NewThread(kind, pc) == [kind |-> kind, pc |-> pc, tick |-> FALSE, sends |-> 0]

\* Stop has returned and the watchdog was not started again
Stopped == stopper = "returned"

\* the process has not died of a panic
Alive == stopper # "panicked"

\* variant: Start spawns a loop whatever isRunning says
StartAlwaysSpawns(running) == TRUE

\* Start: if w.isRunning { return }
StartSpawns(running) == ~running

\* Stop: if !w.isRunning { return }
StopSignals(running) == running

\* Start: no-op when running, else isRunning = true and go w.runLoop()
Start ==
  /\ Alive
  /\ Len(threads) < MaxThreads
  /\ wd' = [wd EXCEPT !.isRunning = TRUE]
  /\ threads' = IF StartSpawns(wd.isRunning)
                THEN Append(threads, NewThread("loop", "select"))
                ELSE threads
  /\ stopper' = IF ~wd.isRunning /\ stopper = "returned" THEN "idle" ELSE stopper
  /\ UNCHANGED <<bcVars, flVars, dbUsers, now, resp, slotVars, supVars, obsVars,
                 alertLog, lateSample, tasks, store>>

\* Stop, up to the unlock: no-op when not running, else isRunning = false; a
\* second caller may come while the first is between its unlock and its close
StopLock ==
  /\ Alive
  /\ stopper \in {"idle", "returned"} \/ (stopper = "closing" /\ ~wd.isRunning)
  /\ wd' = [wd EXCEPT !.isRunning = FALSE]
  /\ stopper' = IF StopSignals(wd.isRunning) THEN "closing" ELSE stopper
  /\ UNCHANGED <<bcVars, flVars, dbUsers, now, resp, slotVars, supVars, obsVars,
                 threads, alertLog, lateSample, tasks, store>>

\* Stop, after the unlock: close(w.stopChan) and return; closing a closed
\* channel panics
StopClose ==
  /\ Alive
  /\ stopper = "closing"
  /\ wd' = [wd EXCEPT !.stopClosed = TRUE]
  /\ stopper' = IF wd.stopClosed THEN "panicked" ELSE "returned"
  /\ UNCHANGED <<bcVars, flVars, dbUsers, now, resp, slotVars, supVars, obsVars,
                 threads, alertLog, lateSample, tasks, store>>

\* the ticker of a loop delivers a tick (its channel holds one)
TickerFire(i) ==
  /\ Alive
  /\ threads[i].kind = "loop" /\ threads[i].pc # "exited"
  /\ ~threads[i].tick
  /\ threads' = [threads EXCEPT ![i].tick = TRUE]
  /\ UNCHANGED <<bcVars, flVars, dbUsers, now, resp, slotVars, supVars, obsVars,
                 wd, stopper, alertLog, lateSample, tasks, store>>

\* runLoop: case <-w.stopChan: return
LoopStop(i) ==
  /\ Alive
  /\ threads[i].kind = "loop" /\ threads[i].pc = "select"
  /\ wd.stopClosed
  /\ threads' = [threads EXCEPT ![i].pc = "exited"]
  /\ UNCHANGED <<bcVars, flVars, dbUsers, now, resp, slotVars, supVars, obsVars,
                 wd, stopper, alertLog, lateSample, tasks, store>>

\* runLoop: case <-ticker.C: w.checkSystem()
LoopTick(i) ==
  /\ Alive
  /\ threads[i].kind = "loop" /\ threads[i].pc = "select"
  /\ threads[i].tick
  /\ threads' = [threads EXCEPT ![i].tick = FALSE, ![i].pc = "sample"]
  /\ UNCHANGED <<bcVars, flVars, dbUsers, now, resp, slotVars, supVars, obsVars,
                 wd, stopper, alertLog, lateSample, tasks, store>>

\* ForceCheck: w.checkSystem() on the caller's goroutine
ForceCheck ==
  /\ Alive
  /\ Len(threads) < MaxThreads
  /\ threads' = Append(threads, NewThread("force", "sample"))
  /\ UNCHANGED <<bcVars, flVars, dbUsers, now, resp, slotVars, supVars, obsVars,
                 wd, stopper, alertLog, lateSample, tasks, store>>

\* checkSystem up to the lock: GetSystemStats and the threshold tests
CheckSample(i, ok, stats) ==
  /\ Alive
  /\ threads[i].pc = "sample"
  /\ threads' = [threads EXCEPT ![i].pc =
                   IF ok /\ Breach(stats) THEN "gate" ELSE AfterCheck(threads[i].kind)]
  /\ lateSample' = IF threads[i].kind = "loop" /\ Stopped THEN TRUE ELSE lateSample
  /\ UNCHANGED <<bcVars, flVars, dbUsers, now, resp, slotVars, supVars, obsVars,
                 wd, stopper, alertLog, tasks, store>>

\* checkSystem, the lock section: the cooldown test and the stamp
CheckGate(i) ==
  /\ Alive
  /\ threads[i].pc = "gate"
  /\ IF CooldownPassed(wd.lastAlertTime, now)
     THEN /\ wd' = [wd EXCEPT !.lastAlertTime = now]
          /\ alertLog' = Append(alertLog, now)
          /\ threads' = [threads EXCEPT ![i].pc = "alert"]
     ELSE /\ threads' = [threads EXCEPT ![i].pc = AfterCheck(threads[i].kind)]
          /\ UNCHANGED <<wd, alertLog>>
  /\ UNCHANGED <<bcVars, flVars, dbUsers, now, resp, slotVars, supVars, obsVars,
                 stopper, lateSample, tasks, store>>

\* checkSystem after the unlock: sendAlert
CheckAlert(i) ==
  /\ Alive
  /\ threads[i].pc = "alert"
  /\ threads' = [threads EXCEPT ![i].sends = @ + 1,
                                ![i].pc = AfterCheck(threads[i].kind)]
  /\ lateSample' = IF threads[i].kind = "loop" /\ Stopped THEN TRUE ELSE lateSample
  /\ UNCHANGED <<bcVars, flVars, dbUsers, now, resp, slotVars, supVars, obsVars,
                 wd, stopper, alertLog, tasks, store>>

\* time passes
AdvanceClock ==
  /\ now < BootTime + MaxElapsed
  /\ now' = now + 1
  /\ UNCHANGED <<bcVars, flVars, dbUsers, resp, restVars>>

(* ----------------------------- storage --------------------------------- *)

\* a new actor opens the bot: GetOrCreateUser inserts the row
RegisterUser(u) ==
  /\ \A i \in 1..Len(dbUsers) : dbUsers[i] # u
  /\ dbUsers' = CreateUserRow(dbUsers, u)
  /\ Quiet
  /\ UNCHANGED <<broadcast, launches, flashSale, flashSessions, reader, now, resp, slotVars, supVars, wdVars, tasks, store>>

(* --------------------------- specifications ---------------------------- *)

\* what the environment answers during one event: the sender's username and
\* balance, and whether the lookups, the writes and the sends succeed
Env(username, balance, dbOk, found, opOk, sendOk) ==
  [username |-> username, balance |-> balance, dbOk |-> dbOk, found |-> found,
   opOk |-> opOk, sendOk |-> sendOk]

\* discounts and durations an admin enters
Percents == {0, 50}
Hours == {1}

\* the order in which the actors first open the bot
Arrivals == <<12, 1, 2>>
FewArrivals == <<12>>

NextArrival(arrivals) ==
  IF Len(dbUsers) < Len(arrivals) THEN {arrivals[Len(dbUsers) + 1]} ELSE {}

BroadcastEnvs == {Env(<<>>, 0, dbOk, TRUE, TRUE, TRUE) : dbOk \in BOOLEAN}

\* the admin who runs the fan-outs whose loop is followed recipient by recipient
Sender == CHOOSE a \in AdminIDs : \A b \in AdminIDs : a <= b

\* launch control: the broadcast wizard of every admin and the flash sale of
\* one, with the fan-out goroutines, over a short recipient list
NextBroadcast ==
  \/ \E a \in AdminIDs : HandleAdminBroadcast(a)
  \/ \E a \in AdminIDs : HandleCancelBroadcast(a)
  \/ \E a \in AdminIDs, e \in BroadcastEnvs : OnPhoto(a, <<>>, e)
  \/ \E a \in AdminIDs, dbOk \in BOOLEAN : HandleConfirmBroadcast(a, dbOk)
  \/ \E i \in 1..Len(launches) : JobTick(i)
  \/ \E i \in 1..Len(launches), ok \in BOOLEAN : JobSend(i, ok)
  \/ \E i \in 1..Len(launches) : JobFinal(i)
  \/ \E i \in 1..Len(launches) : JobReport(i)
  \/ \E p \in Percents \ {0}, h \in Hours : HandleFlashSaleStartArgs(Sender, p, h)
  \/ HandleFlashConfirm(Sender)
  \/ \E p \in Percents, h \in Hours : HandleFlashQuick(Sender, p, h)
  \/ \E i \in 1..Len(launches), dbOk \in BOOLEAN : FlashFetch(i, dbOk)
  \/ \E u \in NextArrival(FewArrivals) : RegisterUser(u)

SpecBroadcast == Init /\ [][NextBroadcast]_vars

\* the fan-out loop: one admin's launches over the full recipient list
NextFanout ==
  \/ HandleAdminBroadcast(Sender)
  \/ \E e \in BroadcastEnvs : OnPhoto(Sender, <<>>, e)
  \/ \E dbOk \in BOOLEAN : HandleConfirmBroadcast(Sender, dbOk)
  \/ \E i \in 1..Len(launches) : JobTick(i)
  \/ \E i \in 1..Len(launches), ok \in BOOLEAN : JobSend(i, ok)
  \/ \E i \in 1..Len(launches) : JobFinal(i)
  \/ \E i \in 1..Len(launches) : JobReport(i)
  \/ \E p \in Percents \ {0}, h \in Hours : HandleFlashQuick(Sender, p, h)
  \/ \E i \in 1..Len(launches), dbOk \in BOOLEAN : FlashFetch(i, dbOk)
  \/ \E u \in NextArrival(Arrivals) : RegisterUser(u)

SpecFanout == Init /\ [][NextFanout]_vars

\* the fan-out of regular broadcasts with fair goroutines: ticks arrive and
\* sends return
NextLive ==
  \/ HandleAdminBroadcast(Sender)
  \/ \E e \in BroadcastEnvs : OnPhoto(Sender, <<>>, e)
  \/ \E dbOk \in BOOLEAN : HandleConfirmBroadcast(Sender, dbOk)
  \/ \E i \in 1..Len(launches) : JobTick(i)
  \/ \E i \in 1..Len(launches), ok \in BOOLEAN : JobSend(i, ok)
  \/ \E i \in 1..Len(launches) : JobFinal(i)
  \/ \E i \in 1..Len(launches) : JobReport(i)
  \/ \E u \in NextArrival(FewArrivals) : RegisterUser(u)

SpecLive ==
  /\ Init /\ [][NextLive]_vars
  /\ \A i \in 1..MaxLaunches :
       /\ WF_vars(JobTick(i))
       /\ WF_vars(\E ok \in BOOLEAN : JobSend(i, ok))
       /\ WF_vars(JobFinal(i))
       /\ WF_vars(JobReport(i))

\* what the actors type: a number (too short for a code) and a word
RouterTexts == {<<"1", "2">>, <<"a", "b", "c">>}

\* the button payloads that carry a user id
UserPayloads == {FormatInt(u) : u \in NonStaffIDs}

\* the catalogue entries the issue buttons carry
Products == {1}
Days == {30}

\* the staff channel and the users table are out of reach here; the remaining
\* lookups and writes succeed, and a looked-up code may or may not exist
RouterEnvs == {Env(<<>>, 0, FALSE, found, TRUE, FALSE) : found \in BOOLEAN}

\* the actors whose slots are followed: one admin and one user; the other
\* admin only takes the broadcast wizard
RouterActors == {Sender} \cup NonStaffIDs

\* the wizards' entry points and the text router
NextRouter ==
  \/ \E a \in RouterActors : HandlePromoEnter(a)
  \/ \E a \in RouterActors : HandleCreateTicket(a)
  \/ \E a \in RouterActors : HandleExitSupport(a)
  \/ \E d \in UserPayloads : HandleSupportReplyStart(Sender, d)
  \/ \E a \in AdminIDs : HandleAdminBroadcast(a)
  \/ HandleCancelBroadcast(Sender)
  \/ HandleAdminFindUserStart(Sender)
  \/ \E d \in UserPayloads \cup {<<>>}, found \in BOOLEAN :
       HandleAdminAddBalStart(Sender, d, found)
  \/ HandleIssueStart(Sender)
  \/ \E p \in Products : HandleIssueProduct(Sender, p)
  \/ \E d \in Days : HandleIssueDays(Sender, d)
  \/ HandleIssueCancel(Sender)
  \/ HandleAdminPromoCreate(Sender)
  \/ HandleAdminPromoDelete(Sender)
  \/ HandleAdminPromoCancel(Sender)
  \/ \E a \in Actors, t \in RouterTexts, e \in RouterEnvs : OnText(a, t, e)

SpecRouter == Init /\ [][NextRouter]_vars

\* the watchdog: its loop, Stop and Start from the bot's main goroutine,
\* ForceCheck from anywhere, the panel's samples and the clock
NextWatchdog ==
  \/ Start
  \/ StopLock
  \/ StopClose
  \/ ForceCheck
  \/ \E i \in 1..Len(threads) : TickerFire(i)
  \/ \E i \in 1..Len(threads) : LoopStop(i)
  \/ \E i \in 1..Len(threads) : LoopTick(i)
  \/ \E i \in 1..Len(threads), ok \in BOOLEAN, stats \in Samples : CheckSample(i, ok, stats)
  \/ \E i \in 1..Len(threads) : CheckGate(i)
  \/ \E i \in 1..Len(threads) : CheckAlert(i)
  \/ AdvanceClock

SpecWatchdog == Init /\ [][NextWatchdog]_vars

\* what actors in support mode send: plain words, digits that would extend a
\* tag, and tags naming somebody else
SupportContents ==
  {<<"a">>, <<"1", "2">>, Tag \o <<"1">>, <<"a", " ">> \o Tag \o <<"1", "2">>}

\* an actor without username whose row cannot be read, and an actor with
\* username and balance whose post reaches the group or does not
SupportEnvs ==
  {Env(<<>>, 0, FALSE, FALSE, TRUE, TRUE)}
    \cup {Env(<<"a">>, 150, TRUE, FALSE, TRUE, sent) : sent \in BOOLEAN}

\* the support bridge: actors open and leave tickets, write texts and send
\* photos; staff reply in the support group to the latest ticket post or to a
\* message that is no ticket
NextSupport ==
  \/ \E a \in RouterActors : HandleCreateTicket(a)
  \/ \E a \in RouterActors : HandleExitSupport(a)
  \/ \E a \in RouterActors, t \in SupportContents, e \in SupportEnvs : OnText(a, t, e)
  \/ \E a \in RouterActors, t \in SupportContents \cup {<<>>}, e \in SupportEnvs :
       OnPhoto(a, t, e)
  \/ \E a \in AdminIDs, r \in {staffPosts, NoPost}, sent \in BOOLEAN :
       handleSupportGroupMessage(a, r, sent)

SpecSupport == Init /\ [][NextSupport]_vars

\* the group messages staff may reply to besides the latest ticket post: one
\* without content, a plain text, and a caption with a tag that names nobody
OtherPosts ==
  {NoPost, [NoPost EXCEPT !.text = <<"a">>], [NoPost EXCEPT !.caption = Tag]}

\* what the actors write in the staff-reply runs: a word and a foreign tag
StaffReplyContents == {<<"a">>, Tag \o <<"1">>}

\* the actor's row is read and the post reaches the group
StaffReplyEnvs == {Env(<<"a">>, 150, TRUE, FALSE, TRUE, TRUE)}

\* the staff side of the bridge: actors open tickets and write, staff write in
\* the support group, in reply to the latest ticket post, to some other
\* message, or to nothing
NextStaffReply ==
  \/ \E a \in RouterActors : HandleCreateTicket(a)
  \/ \E a \in RouterActors : HandleExitSupport(a)
  \/ \E a \in RouterActors, t \in StaffReplyContents, e \in StaffReplyEnvs :
       OnText(a, t, e)
  \/ \E a \in AdminIDs, r \in {staffPosts} \cup OtherPosts, sent \in BOOLEAN :
       handleSupportGroupMessage(a, r, sent)
  \/ \E a \in AdminIDs : handleSupportGroupNoReply(a)

SpecStaffReply == Init /\ [][NextStaffReply]_vars

\* the results of the calls in the admin wizards: a free code, writes succeed
WizardEnvs == {Env(<<>>, 0, TRUE, FALSE, TRUE, FALSE)}

\* the percentages of the flash_percent buttons followed here
ManualPercents == {20, 50}

\* the admin wizards with their step events, in any order: key issuance of
\* both admins, the promo wizard and the manual flash sale of one
NextWizards ==
  \/ \E a \in AdminIDs : HandleIssueStart(a)
  \/ \E a \in AdminIDs, p \in Products : HandleIssueProduct(a, p)
  \/ \E a \in AdminIDs, d \in Days : HandleIssueDays(a, d)
  \/ \E a \in AdminIDs, opOk \in BOOLEAN : HandleIssueNoUser(a, opOk)
  \/ \E a \in AdminIDs : HandleIssueCancel(a)
  \/ HandleAdminPromoCreate(Sender)
  \/ HandleAdminPromoCancel(Sender)
  \/ \E p \in ManualPercents : HandleFlashPercent(Sender, p)
  \/ \E h \in Hours : HandleFlashHours(Sender, h)
  \/ HandleFlashConfirm(Sender)
  \/ HandleFlashCancel(Sender)
  \/ \E t \in RouterTexts, e \in WizardEnvs : OnText(Sender, t, e)

SpecWizards == Init /\ [][NextWizards]_vars

\* the flows' entries and exits: key issuance of both admins, the other admin
\* flows of one, the user flags of one admin and one user, and the codes the
\* user types while the promo-entry flag is set
NextExits ==
  \/ \E a \in RouterActors : HandlePromoEnter(a)
  \/ \E a \in RouterActors : HandleCreateTicket(a)
  \/ \E a \in RouterActors : HandleExitSupport(a)
  \/ \E a \in RouterActors : HandleStopSupport(a)
  \/ \E d \in UserPayloads : HandleSupportReplyStart(Sender, d)
  \/ HandleSupportCancelReply(Sender)
  \/ \E a \in AdminIDs : HandleIssueStart(a)
  \/ \E a \in AdminIDs, p \in Products : HandleIssueProduct(a, p)
  \/ \E a \in AdminIDs : HandleIssueCancel(a)
  \/ HandleAdminPromoCreate(Sender)
  \/ HandleAdminPromoDelete(Sender)
  \/ HandleAdminPromoCancel(Sender)
  \/ \E a \in NonStaffIDs, t \in RouterTexts, e \in RouterEnvs : OnText(a, t, e)

SpecExits == Init /\ [][NextExits]_vars

\* what the actors write to support in the ticket runs
TicketContents == {<<"a">>}

\* the actor's row is read; the post to the group or the reply to the actor
\* arrives or does not
TicketEnvs == {Env(<<>>, 0, TRUE, FALSE, TRUE, sent) : sent \in BOOLEAN}

\* the payloads of the close buttons: the id of an actor that writes; and a
\* callback whose payload is no number
ClosePayloads == {FormatInt(u) : u \in RouterActors} \cup {<<"a">>}

\* the life of tickets: actors open support and write, staff reply to the
\* latest post, and either side closes
NextTickets ==
  \/ \E a \in RouterActors : HandleCreateTicket(a)
  \/ \E a \in RouterActors, t \in TicketContents, e \in TicketEnvs : OnText(a, t, e)
  \/ \E a \in AdminIDs, sent \in BOOLEAN : handleSupportGroupMessage(a, staffPosts, sent)
  \/ \E a \in RouterActors, e \in TicketEnvs : HandleTicketSolve(a, e)
  \/ \E a \in AdminIDs, d \in ClosePayloads, sent \in BOOLEAN, edited \in BOOLEAN :
       HandleAdminCloseTicket(a, d, sent, edited)

SpecTickets == Init /\ [][NextTickets]_vars

(* ----------------------- flash sale: the readers ----------------------- *)

\* hours the clock advances, hour by hour, after the process started
MaxHours == 8

\* const basePrice = 450.0
BasePrice == 450
\* the flash_quick buttons of the flash-sale menu: percent, hours
QuickOffers == {<<50, 6>>, <<30, 12>>}

\* flashSaleState.Clear
FlashClear == [discountPercent |-> 0, endTime |-> ZeroTime]

\* variant: the sale is active as long as a percentage is set
IsActiveNoExpiry(f, t) == f.discountPercent > 0

\* flashSaleState.IsActive, time.Now() = t
IsActive(f, t) == f.discountPercent > 0 /\ t < f.endTime

\* flashSaleState.GetDiscount, time.Now() = t
GetDiscount(f, t) == IF t < f.endTime THEN f.discountPercent ELSE 0

\* flashSaleState.GetEndTime
GetEndTime(f) == f.endTime

\* variant: the percentage is subtracted from the price as an amount
ApplyDiscountFlat(f, t, originalPrice) ==
  LET discount == GetDiscount(f, t)
  IN IF discount <= 0 THEN originalPrice ELSE originalPrice - discount

\* flashSaleState.ApplyDiscount, time.Now() = t. The float64 product
\* originalPrice * (100 - discount) is a whole number below 2^53 and, for the
\* prices and percentages used here, a multiple of 100: the quotient is exact
ApplyDiscount(f, t, originalPrice) ==
  LET discount == GetDiscount(f, t)
  IN IF discount <= 0 THEN originalPrice
     ELSE (originalPrice * (100 - discount)) \div 100

\* HandleStopSale / HandleStopSaleCallback
HandleStopSale(a) ==
  /\ flashSale' = IF IsActive(flashSale, now) THEN FlashClear ELSE flashSale
  /\ resp' = [msg |-> IF IsActive(flashSale, now) THEN "SaleStopped" ELSE "NoActiveSale"]
  /\ Quiet
  /\ UNCHANGED <<broadcast, launches, dbUsers, flashSessions, reader, now, slotVars, supVars, wdVars, tasks, store>>

\* an hour passes
HourPasses ==
  /\ now + MinutesPerHour <= BootTime + MaxHours * MinutesPerHour
  /\ now' = now + MinutesPerHour
  /\ UNCHANGED <<bcVars, flVars, dbUsers, resp, restVars>>

ReaderFree == reader.pc \in {"idle", "done"}

\* HandlePlanSelect, one month of a product at the base price, up to
\* flashDiscount := flashSale.GetDiscount()
HandlePlanSelect(a) ==
  LET flashDiscount == GetDiscount(flashSale, now)
  IN /\ ReaderFree
     /\ reader' = [NoReader EXCEPT !.handler = "HandlePlanSelect",
                                   !.pc = IF flashDiscount > 0 THEN "apply" ELSE "done",
                                   !.originalPrice = BasePrice,
                                   !.flashDiscount = flashDiscount,
                                   !.price = BasePrice]
     /\ resp' = [msg |-> IF flashDiscount > 0 THEN "none" ELSE "PlanQuote"]
     /\ Quiet
     /\ UNCHANGED <<bcVars, flashSale, flashSessions, dbUsers, now, slotVars, supVars, wdVars, tasks, store>>

\* HandlePlanSelect: price = flashSale.ApplyDiscount(price), and the answer
HandlePlanSelectApply ==
  /\ reader.handler = "HandlePlanSelect" /\ reader.pc = "apply"
  /\ reader' = [reader EXCEPT !.price = ApplyDiscount(flashSale, now, reader.originalPrice),
                              !.pc = "done"]
  /\ resp' = [msg |-> "PlanQuote"]
  /\ Quiet
  /\ UNCHANGED <<bcVars, flashSale, flashSessions, dbUsers, now, slotVars, supVars, wdVars, tasks, store>>

\* HandleAdmin up to if flashSale.IsActive(): no handler state is written
HandleAdmin(a) ==
  LET active == IsActive(flashSale, now)
  IN /\ ReaderFree
     /\ reader' = [NoReader EXCEPT !.handler = "HandleAdmin",
                                   !.pc = IF active THEN "discount" ELSE "done",
                                   !.active = active]
     /\ resp' = [msg |-> IF active THEN "none" ELSE "AdminPanel"]
     /\ Quiet
     /\ UNCHANGED <<bcVars, flashSale, flashSessions, dbUsers, now, slotVars, supVars, wdVars, tasks, store>>

\* HandleAdmin: flashSale.GetDiscount()
HandleAdminGetDiscount ==
  /\ reader.handler = "HandleAdmin" /\ reader.pc = "discount"
  /\ reader' = [reader EXCEPT !.flashDiscount = GetDiscount(flashSale, now), !.pc = "end"]
  /\ UNCHANGED <<bcVars, flashSale, flashSessions, dbUsers, now, resp, restVars>>

\* HandleAdmin: flashSale.GetEndTime(), and the dashboard is sent
HandleAdminGetEndTime ==
  /\ reader.handler = "HandleAdmin" /\ reader.pc = "end"
  /\ reader' = [reader EXCEPT !.endTime = GetEndTime(flashSale), !.pc = "done"]
  /\ resp' = [msg |-> "AdminPanel"]
  /\ Quiet
  /\ UNCHANGED <<bcVars, flashSale, flashSessions, dbUsers, now, slotVars, supVars, wdVars, tasks, store>>

NextFlash ==
  \/ \E a \in AdminIDs, o \in QuickOffers : HandleFlashQuick(a, o[1], o[2])
  \/ \E a \in AdminIDs : HandleStopSale(a)
  \/ HourPasses
  \/ \E a \in NonStaffIDs : HandlePlanSelect(a)
  \/ HandlePlanSelectApply
  \/ \E a \in AdminIDs : HandleAdmin(a)
  \/ HandleAdminGetDiscount
  \/ HandleAdminGetEndTime

SpecFlash == Init /\ [][NextFlash]_vars

(* ------------------------------- locks --------------------------------- *)

\* the mutexes of the package: broadcast.mu, issue.mu, adminSearch.mu,
\* promoWizard.mu, promoDelete.mu, userPromo.mu, support.mu, flashSale.mu,
\* flashSaleSessions.mu, SupportTracker.mu, Watchdog.mu
Mutexes == {"broadcast", "issue", "adminSearch", "promoWizard", "promoDelete", "userPromo",
            "support", "flashSale", "flashSaleSessions", "tracker", "watchdog"}

\* mu.Lock() ... mu.Unlock()
Section(mu) == <<[op |-> "Lock", mu |-> mu], [op |-> "Unlock", mu |-> mu]>>
\* mu.RLock() ... mu.RUnlock()
RSection(mu) == <<[op |-> "RLock", mu |-> mu], [op |-> "RUnlock", mu |-> mu]>>

\* the OnText router for a staff actor with no slot: the two
\* IsUserInSupportMode calls, GetAdminReplyTarget and the five slot tests
OnTextStaffLocks ==
  RSection("support") \o RSection("support") \o RSection("support") \o Section("broadcast")
    \o Section("adminSearch") \o Section("issue") \o Section("promoWizard")
    \o Section("promoDelete")

\* the OnText router for a non-staff actor with no flag: IsUserInSupportMode
\* for the log line, IsUserInPromoMode, IsUserInSupportMode
OnTextUserLocks == RSection("support") \o RSection("userPromo") \o RSection("support")

\* variant: the promo-delete slot is cleared while the wizard lock is held
PromoCancelLocksNested ==
  <<[op |-> "Lock", mu |-> "promoWizard"], [op |-> "Lock", mu |-> "promoDelete"],
    [op |-> "Unlock", mu |-> "promoDelete"], [op |-> "Unlock", mu |-> "promoWizard"]>>

\* HandleAdminPromoCancel
PromoCancelLocks == Section("promoWizard") \o Section("promoDelete")

\* SupportTracker.UpdateDashboard: GetAllTickets, GetWaitingCount
UpdateDashboardLocks == RSection("tracker") \o RSection("tracker")

\* HandleFlashConfirm: the session, flashSale.Set, flashSale.GetEndTime
FlashConfirmLocks == Section("flashSaleSessions") \o Section("flashSale") \o RSection("flashSale")

\* HandleTicketSolve: SetUserSupportMode, tracker.RemoveTicket
TicketSolveLocks == Section("support") \o Section("tracker")

\* Watchdog.checkSystem: the cooldown gate
CheckSystemLocks == Section("watchdog")

LockPrograms ==
  [OnTextStaff |-> OnTextStaffLocks, OnTextUser |-> OnTextUserLocks,
   HandleAdminPromoCancel |-> PromoCancelLocks, UpdateDashboard |-> UpdateDashboardLocks,
   HandleFlashConfirm |-> FlashConfirmLocks, HandleTicketSolve |-> TicketSolveLocks,
   checkSystem |-> CheckSystemLocks]

\* the lock calls task i has still to make
Rest(i) == IF tasks[i].prog = "none" THEN <<>>
           ELSE SubSeq(LockPrograms[tasks[i].prog], tasks[i].pc + 1,
                       Len(LockPrograms[tasks[i].prog]))

\* the mutexes task i holds in mode op: locked in the calls made so far and
\* not unlocked since
Held(i, op, unop) ==
  IF tasks[i].prog = "none" THEN {}
  ELSE LET prog == LockPrograms[tasks[i].prog]
       IN {prog[k].mu : k \in {k \in 1..tasks[i].pc :
             /\ prog[k].op = op
             /\ \A j \in (k + 1)..tasks[i].pc : prog[j] # [op |-> unop, mu |-> prog[k].mu]}}
HeldW(i) == Held(i, "Lock", "Unlock")
HeldR(i) == Held(i, "RLock", "RUnlock")

\* sync.RWMutex: a writer is queued on mu
WriterQueued(mu) ==
  \E j \in 1..MaxTasks : tasks[j].waiting /\ Rest(j) # <<>> /\ Head(Rest(j)).mu = mu

\* the next lock call of task i does not block
CanProceed(i) ==
  /\ Rest(i) # <<>>
  /\ LET next == Head(Rest(i))
     IN CASE next.op = "Lock" ->
               tasks[i].waiting =>
                 \A j \in 1..MaxTasks : next.mu \notin HeldW(j) \cup HeldR(j)
          [] next.op = "RLock" ->
               /\ \A j \in 1..MaxTasks : next.mu \notin HeldW(j)
               /\ ~WriterQueued(next.mu)
          [] OTHER -> TRUE

\* a handler or a background task begins
TaskStart(i, prog) ==
  /\ tasks[i] = NoTask
  /\ tasks' = [tasks EXCEPT ![i] = [prog |-> prog, pc |-> 0, waiting |-> FALSE]]
  /\ UNCHANGED <<bcVars, flVars, dbUsers, now, resp, slotVars, supVars, wdVars, obsVars, store>>

\* the next lock call of task i: a Lock is queued first and taken when the
\* mutex is free
TaskStep(i) ==
  /\ CanProceed(i)
  /\ tasks' = [tasks EXCEPT ![i] =
                 IF Head(Rest(i)).op = "Lock" /\ ~tasks[i].waiting
                 THEN [@ EXCEPT !.waiting = TRUE]
                 ELSE [@ EXCEPT !.pc = @ + 1, !.waiting = FALSE]]
  /\ UNCHANGED <<bcVars, flVars, dbUsers, now, resp, slotVars, supVars, wdVars, obsVars, store>>

\* task i returns
TaskReturn(i) ==
  /\ tasks[i].prog # "none" /\ Rest(i) = <<>>
  /\ tasks' = [tasks EXCEPT ![i] = NoTask]
  /\ UNCHANGED <<bcVars, flVars, dbUsers, now, resp, slotVars, supVars, wdVars, obsVars, store>>

NextLocks ==
  \/ \E i \in 1..MaxTasks, prog \in DOMAIN LockPrograms : TaskStart(i, prog)
  \/ \E i \in 1..MaxTasks : TaskStep(i)
  \/ \E i \in 1..MaxTasks : TaskReturn(i)

SpecLocks == Init /\ [][NextLocks]_vars

(* ------------------------ purchases from balance ----------------------- *)

\* the plans without a volume discount, in months
PlanMonths == {1, 3}
\* users.balance when the purchase begins: sums of the top-up buttons
Balances == {0, 450, 1000, 1450}

\* Service.CalculatePrice for a plan without a volume discount
CalculatePrice(basePrice, months) == basePrice * months

\* DB.DeductBalance: one transaction, refused when the balance is short
DeductBalance(balance, amount, ok) ==
  IF ~ok \/ balance < amount THEN [ok |-> FALSE, balance |-> balance]
  ELSE [ok |-> TRUE, balance |-> balance - amount]

\* Service.AddUserBalance: one transaction; on an error nothing is written
AddUserBalance(balance, amount, ok) == IF ok THEN balance + amount ELSE balance

\* HandlePayWithBalance / HandleExtendPay: the price of the plan
PlanPrice(months) ==
  IF IsActive(flashSale, now)
  THEN ApplyDiscount(flashSale, now, CalculatePrice(BasePrice, months))
  ELSE CalculatePrice(BasePrice, months)

\* the purchase of both handlers: the balance test, the debit, the
\* provisioning step and, when that step fails, the credit whose error is
\* not looked at
Purchase(a, months, before, debitOk, stepOk, creditOk, done, failed) ==
  LET price == PlanPrice(months)
      debit == DeductBalance(before, price, debitOk)
  IN /\ account' = [actor |-> a, price |-> price, before |-> before,
                     balance |-> IF before < price \/ ~debit.ok THEN before
                                 ELSE IF stepOk THEN debit.balance
                                 ELSE AddUserBalance(debit.balance, price, creditOk),
                     months |-> IF before >= price /\ debit.ok /\ stepOk THEN months ELSE 0]
     /\ resp' = [msg |-> IF before < price THEN "Insufficient"
                         ELSE IF ~debit.ok THEN "DebitError"
                         ELSE IF stepOk THEN done ELSE failed]
     /\ routed' = NoRoute /\ lastCall' = NoCall /\ delivered' = NoDelivery
     /\ UNCHANGED <<bcVars, flVars, dbUsers, now, slotVars, supVars, wdVars, tasks, store>>

\* HandlePayWithBalance: DeductBalance, CreateSubscriptionSimple
HandlePayWithBalance(a, months, before, debitOk, createOk, creditOk) ==
  Purchase(a, months, before, debitOk, createOk, creditOk, "Activated", "CreateErrorRefunded")

\* HandleExtendPay for a subscription of the actor: DeductBalance, ExtendSubscription
HandleExtendPay(a, months, before, debitOk, extendOk, creditOk) ==
  Purchase(a, months, before, debitOk, extendOk, creditOk, "Extended", "ExtendErrorRefunded")

NextPay ==
  \/ \E a \in NonStaffIDs, months \in PlanMonths, before \in Balances,
        debitOk \in BOOLEAN, createOk \in BOOLEAN, creditOk \in BOOLEAN :
        HandlePayWithBalance(a, months, before, debitOk, createOk, creditOk)
  \/ \E a \in NonStaffIDs, months \in PlanMonths, before \in Balances,
        debitOk \in BOOLEAN, extendOk \in BOOLEAN, creditOk \in BOOLEAN :
        HandleExtendPay(a, months, before, debitOk, extendOk, creditOk)
  \/ \E a \in AdminIDs, o \in QuickOffers : HandleFlashQuick(a, o[1], o[2])

SpecPay == Init /\ [][NextPay]_vars

\* user search and balance top-up of the admins: the prompts, their Cancel
\* button (admin_back, bound to HandleAdmin, which shows the running sale)
\* and the text router
NextSearch ==
  \/ \E a \in AdminIDs : HandleAdminFindUserStart(a)
  \/ \E a \in AdminIDs, d \in UserPayloads \cup {<<>>}, found \in BOOLEAN :
       HandleAdminAddBalStart(a, d, found)
  \/ \E a \in AdminIDs : HandleAdmin(a)
  \/ HandleAdminGetDiscount
  \/ HandleAdminGetEndTime
  \/ \E o \in QuickOffers : HandleFlashQuick(Sender, o[1], o[2])
  \/ \E a \in AdminIDs, t \in RouterTexts, e \in RouterEnvs : OnText(a, t, e)

SpecSearch == Init /\ [][NextSearch]_vars

(* ------------------------------ properties ----------------------------- *)

RunningBroadcasts ==
  {i \in 1..Len(launches) : launches[i].kind = "broadcast" /\ Running(launches[i])}

RunningFanouts == {i \in 1..Len(launches) : Running(launches[i])}

\* the number of sends of a launch that ended with the given outcome
Outcomes(l, ok) == Cardinality({k \in 1..Len(l.outcomes) : l.outcomes[k] = ok})

\* C1: at most one regular broadcast fan-out is running; while its recipient
\* loop has not completed the wizard is closed (a start is answered
\* AlreadyRunning and never reaches the payload or the confirm step), so no
\* second fan-out task is started.
C1_AtMostOneBroadcast ==
  /\ Cardinality(RunningBroadcasts) <= 1
  /\ RunningBroadcasts # {} =>
       /\ broadcast.isActive
       /\ ~broadcast.waitingMsg /\ ~broadcast.waitingConfirm
       /\ resp.msg \notin {"SendPayload", "ConfirmPrompt"}

\* a start was refused while a broadcast of another admin was in its loop
C1_Witness ==
  \E i \in RunningBroadcasts :
    /\ launches[i].pc = "send"
    /\ launches[i].admin # Sender
    /\ resp.msg = "AlreadyRunning"

\* C2: a completed fan-out reports sent + failed = total, total being the
\* length of the list fetched at launch; sent and failed are the numbers of
\* successful and failed sends; no recipients: completes without a tick, 0/0/0;
\* three recipients with the second send failing: {2, 1, 3}.
C2_Accounting ==
  \A i \in 1..Len(launches) :
    LET l == launches[i]
    IN l.pc = "done" =>
         /\ l.reports = 1
         /\ l.summary.total = Len(l.snap)
         /\ l.summary.sent + l.summary.failed = l.summary.total
         /\ l.summary.sent = Outcomes(l, TRUE)
         /\ l.summary.failed = Outcomes(l, FALSE)
         /\ l.snap = <<>> => l.ticks = 0 /\ l.summary.sent = 0 /\ l.summary.failed = 0
         /\ l.outcomes = <<TRUE, FALSE, TRUE>> =>
              l.summary = [sent |-> 2, failed |-> 1, total |-> 3]

\* a broadcast over three recipients completed, its second send having failed
C2_Witness ==
  \E i \in 1..Len(launches) :
    /\ launches[i].kind = "broadcast" /\ launches[i].pc = "done"
    /\ launches[i].outcomes = <<TRUE, FALSE, TRUE>>
    /\ launches[i].summary = [sent |-> 2, failed |-> 1, total |-> 3]

\* C8 (as claimed): two fan-outs, regular or flash-sale, never run at the
\* same time.
C8_OneFanoutAtATime == Cardinality(RunningFanouts) <= 1

\* C9: the loop attempts the recipients of the list fetched at launch, each
\* once and in that order, one send at a time, each send after one tick; a
\* failed send is counted and the loop goes on to the end of the list; the
\* list is not fetched again.
C9_SnapshotOrder ==
  \A i \in 1..Len(launches) :
    LET l == launches[i]
    IN l.pc \notin {"fetch", "aborted"} =>
         /\ l.userIDs = l.snap
         /\ l.idx <= Len(l.snap)
         /\ l.attempts = SubSeq(l.snap, 1, l.idx)
         /\ Len(l.outcomes) = l.idx
         /\ l.sent = Outcomes(l, TRUE) /\ l.failed = Outcomes(l, FALSE)
         /\ l.ticks = l.idx + (IF l.pc = "send" THEN 1 ELSE 0)
         /\ l.pc \in {"final", "report", "done"} => l.idx = Len(l.snap)

\* a flash-sale fan-out went on after a failed first send and finished its
\* list of two although a third user had registered during the run
C9_Witness ==
  \E i \in 1..Len(launches) :
    /\ launches[i].kind = "flash" /\ launches[i].pc = "done"
    /\ launches[i].outcomes = <<FALSE, TRUE>>
    /\ launches[i].attempts = SubSeq(Arrivals, 1, 2)
    /\ dbUsers = Arrivals

\* C10: a launch whose enumeration failed sent nothing: no tick, no attempt,
\* no final summary, one error message to the initiator; and the running flag
\* is set only while a regular fan-out runs, so a later broadcast can start.
C10_AbortBeforeSend ==
  /\ \A i \in 1..Len(launches) :
       LET l == launches[i]
       IN l.pc = "aborted" =>
            /\ l.ticks = 0 /\ l.attempts = <<>> /\ l.sent = 0 /\ l.failed = 0
            /\ l.reports = 0 /\ l.errs = 1
  /\ broadcast.isActive => RunningBroadcasts # {}

\* a regular launch aborted on the enumeration and a later broadcast runs
C10_Witness ==
  /\ Len(launches) = 2
  /\ launches[1].kind = "broadcast" /\ launches[1].pc = "aborted"
  /\ launches[2].kind = "broadcast" /\ launches[2].pc = "send"

\* C3: under fair goroutines every regular fan-out that entered its loop
\* reaches its end: the running flag is cleared and the final summary
\* {sent, failed, total} is pushed to the initiator, once; the flag is never
\* left set without a running fan-out, so a new broadcast can then be started.
C3_EventuallyReported ==
  /\ \A i \in 1..MaxLaunches :
       (i \in DOMAIN launches /\ Running(launches[i]))
         ~> (/\ i \in DOMAIN launches
             /\ launches[i].pc = "done" /\ launches[i].reports = 1
             /\ launches[i].summary = FinalSummary(launches[i]))
  /\ [](\A i \in DOMAIN launches : launches[i].reports <= 1)
  /\ [](RunningBroadcasts = {} => ~broadcast.isActive)

\* the first broadcast has reported and a second one is in its loop
C3_Witness ==
  /\ Len(launches) = 2
  /\ launches[1].kind = "broadcast" /\ launches[1].pc = "done"
  /\ launches[1].reports = 1 /\ launches[1].sent = 1
  /\ launches[2].kind = "broadcast" /\ launches[2].pc = "send"

\* the precedence list of the router: condition names, first match wins
Precedence ==
  <<"promo", "support", "nonstaff", "reply", "broadcast",
    "addbal", "search", "issue", "wizard", "delete">>

Matches(a, c) ==
  CASE c = "promo" -> ~isAdmin(a) /\ a \in userPromo
    [] c = "support" -> a \in userInSupport
    [] c = "nonstaff" -> ~isAdmin(a)
    [] c = "reply" -> adminReplyingTo[a] # 0
    [] c = "broadcast" -> broadcast.waitingMsg /\ broadcast.adminID = a
    [] c = "addbal" -> addBalTo[a] # 0
    [] c = "search" -> a \in searchWaiting
    [] c = "issue" -> issueSessions[a].step = 3
    [] c = "wizard" -> promoSessions[a] # NoPromo
    [] c = "delete" -> a \in promoDeleteWaiting

Consumer(c) ==
  CASE c = "promo" -> <<"HandleUserPromoInput">>
    [] c = "support" -> <<"HandleSupportUserMessage">>
    [] c = "nonstaff" -> <<>>
    [] c = "reply" -> <<"HandleSupportAdminReply">>
    [] c = "broadcast" -> <<"HandleBroadcastMessage">>
    [] c = "addbal" -> <<"HandleAdminAddBalAmount">>
    [] c = "search" -> <<"HandleAdminFindUserInput">>
    [] c = "issue" -> <<"HandleIssueUserID">>
    [] c = "wizard" -> <<"HandleAdminPromoWizardInput">>
    [] c = "delete" -> <<"HandleAdminPromoDeleteInput">>

FirstMatching(a) ==
  LET m == {i \in DOMAIN Precedence : Matches(a, Precedence[i])}
  IN IF m = {} THEN <<>>
     ELSE Consumer(Precedence[CHOOSE i \in m : \A j \in m : i <= j])

\* C4: a text event outside the staff channel is consumed by at most one
\* handler, the one of the first matching condition of the precedence list,
\* whatever other slots are active; when no condition or only the non-staff
\* drop matches, no handler runs and the program state is left as it was
C4_RouterPrecedence ==
  [][\A a \in Actors :
       (routed'.actor = a /\ \E t \in RouterTexts, e \in RouterEnvs : OnText(a, t, e))
         => /\ routed'.handlers = FirstMatching(a)
            /\ Len(routed'.handlers) <= 1
            /\ FirstMatching(a) = <<>>
                 => UNCHANGED <<bcVars, flVars, dbUsers, now, slotVars, supVars, wdVars, tasks, store>>]_vars

\* an admin with the balance, key-issuance, wizard and delete slots active
\* sent a text and the balance step alone consumed it
C4_Witness ==
  /\ routed.kind = "text"
  /\ routed.handlers = <<"HandleAdminAddBalAmount">>
  /\ issueSessions[routed.actor].step = 3
  /\ promoSessions[routed.actor] # NoPromo
  /\ routed.actor \in promoDeleteWaiting

RECURSIVE SumSends(_)
SumSends(ts) == IF ts = <<>> THEN 0 ELSE Head(ts).sends + SumSends(Tail(ts))

\* C5: any two alerts are at least the cooldown apart, an alert being timed
\* by the stamp its check wrote to lastAlertTime in the lock section that
\* admitted it; every alert sent was admitted by its own stamp, whatever the
\* number of breaches sampled and however the loop's checks and the
\* ForceCheck calls interleave
C5_AlertCooldown ==
  /\ \A i, j \in 1..Len(alertLog) :
        i < j => alertLog[j] - alertLog[i] >= AlertCooldown
  /\ SumSends(threads) <= Len(alertLog)
  /\ alertLog # <<>> => wd.lastAlertTime = alertLog[Len(alertLog)]

\* a second alert was admitted: the loop's check passed the gate while a
\* ForceCheck that sampled a breach waits for the lock
C5_Witness ==
  /\ Len(alertLog) = 2
  /\ \E i, j \in 1..Len(threads) :
        /\ threads[i].kind = "loop" /\ threads[i].pc = "alert"
        /\ threads[j].kind = "force" /\ threads[j].pc = "gate"

\* C6: once Stop has returned, the loop takes no sample and sends no alert
C6_StopIsHandshake == ~lateSample

\* C7: a staff reply to the post composed for an actor's forwarded message,
\* text or captioned photo, is routed to that actor, whatever the actor wrote,
\* tags naming other ids included
C7_TagRoundTrip ==
  /\ staffPosts # NoPost => ReplyTarget(staffPosts) = staffPosts.from
  /\ delivered.via = "group" => delivered.to = staffPosts.from

\* staff replied to a photo post whose caption carries a second tag, naming
\* another id, and the reply went to the actor who sent the photo
C7_Witness ==
  /\ delivered.via = "group" /\ delivered.ok
  /\ delivered.to \in NonStaffIDs
  /\ staffPosts.from = delivered.to
  /\ \E i \in 1..Len(staffPosts.caption) :
        /\ i > FirstMatch(staffPosts.caption)
        /\ MatchesAt(staffPosts.caption, i)
        /\ ParseInt(DigitRun(staffPosts.caption, i + Len(Tag))).val # delivered.to

\* C11 (as claimed): after a cancel request issued during the fan-out of a
\* regular broadcast, the loop starts no further iteration: while the cancel
\* is the last request handled, no broadcast goroutine takes another tick
C11_CancelStopsLoop ==
  [][(resp.msg = "Cancelled" /\ resp' = resp)
       => \A i \in DOMAIN launches :
            launches[i].kind = "broadcast" => launches'[i].ticks = launches[i].ticks]_vars

\* the text fails the validation of the step handler h for actor a
Rejects(h, a, text) ==
  LET input == TrimSpace(text)
  IN CASE h = "HandleUserPromoInput" -> Len(input) < MinCodeLen
       [] h = "HandleAdminAddBalAmount" ->
            ~ParseFloat(input).ok \/ ParseFloat(input).val <= 0
       [] h = "HandleIssueUserID" -> ~ParseInt(input).ok
       [] h = "HandleAdminPromoWizardInput" ->
            CASE promoSessions[a].step = 1 ->
                   Len(input) < MinCodeLen \/ Len(input) > MaxCodeLen
              [] promoSessions[a].step = 2 ->
                   ~ParseFloat(input).ok \/ ParseFloat(input).val <= 0
              [] OTHER -> ~ParseInt(input).ok \/ ParseInt(input).val <= 0
       [] OTHER -> FALSE

\* C12 (as claimed): a text that fails the validation of the wizard step that
\* consumes it leaves the actor's slot installed at the same step with its
\* accumulated input
C12_InvalidInputKeepsSlot ==
  [][\A a \in Actors, t \in RouterTexts, e \in RouterEnvs :
       (/\ routed'.actor = a
        /\ OnText(a, t, e)
        /\ Route(a) # <<>>
        /\ Rejects(Route(a)[1], a, t))
         => /\ (a \in userPromo') = (a \in userPromo)
            /\ addBalTo'[a] = addBalTo[a]
            /\ issueSessions'[a] = issueSessions[a]
            /\ promoSessions'[a] = promoSessions[a]]_vars

\* a text that is no number
NonNumericText == <<"a", "b", "c">>

\* C13 (as claimed): an admin whose key-issuance session is at step 3 with a
\* product and 30 days, and who sends a non-numeric text as the target user
\* id, keeps the session at step 3 with that product and those days, and no
\* subscription is created
C13_IssueRetryKeepsSession ==
  [][\A a \in AdminIDs, e \in RouterEnvs :
       (/\ routed'.actor = a
        /\ OnText(a, NonNumericText, e)
        /\ Route(a) = <<"HandleIssueUserID">>
        /\ issueSessions[a].productID \in Products
        /\ issueSessions[a].days \in Days)
         => /\ issueSessions'[a] = issueSessions[a]
            /\ lastCall'.op # "GiftSubscription"]_vars

\* C14: entering key issuance, the promo wizard or the manual flash sale is
\* possible in every state and leaves exactly the flow's initial state in the
\* actor's slot, whatever the slot held before: step 1 without product or
\* days, step 1 without code or amount, step 2 with the chosen percentage and
\* no hours
C14_EnterReplaces ==
  [][\A a \in AdminIDs :
       /\ ENABLED HandleIssueStart(a)
       /\ ENABLED HandleAdminPromoCreate(a)
       /\ HandleIssueStart(a)
            => issueSessions'[a] = [step |-> 1, productID |-> 0, days |-> 0]
       /\ HandleAdminPromoCreate(a)
            => promoSessions'[a] = [step |-> 1, code |-> <<>>, amount |-> 0]
       /\ \A p \in ManualPercents :
            HandleFlashPercent(a, p)
              => flashSessions'[a] = [step |-> 2, percent |-> p, hours |-> 0]]_vars

\* key issuance was entered and its slot holds the initial state, while the
\* same actor's promo wizard and flash-sale session keep their partial input
C14_Witness ==
  /\ resp.msg = "ChooseProduct"
  /\ issueSessions[Sender] = [step |-> 1, productID |-> 0, days |-> 0]
  /\ promoSessions[Sender].step = 3
  /\ flashSessions[Sender].step = 3

\* the slots one actor holds
Slots(b) ==
  <<b \in userPromo, b \in userInSupport, adminReplyingTo[b], b \in searchWaiting,
    addBalTo[b], issueSessions[b], promoSessions[b], b \in promoDeleteWaiting>>

\* C15: leaving a flow can be done in every state, also by an actor who never
\* entered or who left already; afterwards the actor has no entry in that
\* flow's slot, a second exit changes nothing, no error is answered and every
\* other actor's slots are as before
C15_ExitIdempotent ==
  [][\A a \in Actors :
       /\ ENABLED HandleIssueCancel(a) /\ ENABLED HandleAdminPromoCancel(a)
       /\ ENABLED HandleExitSupport(a) /\ ENABLED HandleSupportCancelReply(a)
       /\ HandleIssueCancel(a)
            => /\ issueSessions'[a] = NoIssue
               /\ IssueDelete(issueSessions', a) = issueSessions'
               /\ issueSessions[a] = NoIssue => slotVars' = slotVars
       /\ HandleAdminPromoCancel(a)
            => /\ promoSessions'[a] = NoPromo /\ a \notin promoDeleteWaiting'
               /\ PromoDelete(promoSessions', a) = promoSessions'
               /\ WaitingDelete(promoDeleteWaiting', a) = promoDeleteWaiting'
               /\ (promoSessions[a] = NoPromo /\ a \notin promoDeleteWaiting)
                    => slotVars' = slotVars
       /\ (HandleExitSupport(a) \/ HandleStopSupport(a))
            => /\ a \notin userInSupport'
               /\ SetUserSupportMode(userInSupport', a, FALSE) = userInSupport'
               /\ a \notin userInSupport => slotVars' = slotVars
       /\ HandleSupportCancelReply(a)
            => /\ adminReplyingTo'[a] = 0
               /\ SetAdminReplyTarget(adminReplyingTo', a, 0) = adminReplyingTo'
               /\ adminReplyingTo[a] = 0 => slotVars' = slotVars
       /\ (\E t \in RouterTexts, e \in RouterEnvs : OnText(a, t, e))
            => /\ Route(a) = <<"HandleUserPromoInput">> => a \notin userPromo'
               /\ SetUserPromoMode(userPromo', a, FALSE) = SetUserPromoMode(userPromo, a, FALSE)
       /\ (\/ HandleIssueCancel(a) \/ HandleAdminPromoCancel(a) \/ HandleExitSupport(a)
           \/ HandleStopSupport(a) \/ HandleSupportCancelReply(a))
            => /\ resp'.msg \notin {"Error", "none"}
               /\ \A b \in Actors \ {a} : Slots(b)' = Slots(b)]_vars

\* one admin cancelled key issuance while the other admin is still in it, a
\* user is in support mode and the first admin's promo wizard is open
C15_Witness ==
  /\ resp.msg = "AdminPanel"
  /\ issueSessions[Sender] = NoIssue
  /\ \E b \in AdminIDs \ {Sender} : issueSessions[b].step = 2
  /\ promoSessions[Sender].step = 1
  /\ userInSupport \cap NonStaffIDs # {}

C17_SupportWins ==
  [][\A a \in Actors :
       (routed'.kind = "text" /\ routed'.actor = a
        /\ a \in userInSupport /\ a \in userPromo)
         => routed'.handlers = <<"HandleSupportUserMessage">>]_vars

\* C17 (amended): a text of an actor who has both the support-mode flag and
\* the promo-entry flag is routed to promo-code submission when the actor is
\* not staff, and to support-mode forwarding when the actor is staff
C17_SupportWinsForStaff ==
  [][\A a \in Actors :
       (routed'.kind = "text" /\ routed'.actor = a
        /\ a \in userInSupport /\ a \in userPromo)
         => routed'.handlers = IF isAdmin(a) THEN <<"HandleSupportUserMessage">>
                               ELSE <<"HandleUserPromoInput">>]_vars

\* a user in support mode typed a text that went to promo-code submission
C17_Witness ==
  \E a \in NonStaffIDs :
    /\ routed.kind = "text" /\ routed.actor = a
    /\ routed.handlers = <<"HandleUserPromoInput">>
    /\ a \in userInSupport

\* the polling loops that have not returned
LiveLoops == {i \in 1..Len(threads) : threads[i].kind = "loop" /\ threads[i].pc # "exited"}

\* C18: Start on a running watchdog spawns no loop and changes nothing; Stop on
\* a watchdog that is not running (never started, stopped, or being stopped by
\* a concurrent caller) prepares no close of the stop channel and changes
\* nothing
C18_StartStopIdempotent ==
  [][/\ (Start /\ wd.isRunning) =>
           /\ LiveLoops' = LiveLoops /\ threads' = threads
           /\ wd' = wd /\ stopper' = stopper
     /\ (StopLock /\ ~wd.isRunning) =>
           /\ wd' = wd /\ stopper' = stopper /\ threads' = threads]_vars

\* the first Stop is between its unlock and its close, the loop still runs,
\* and a second Stop can come in
C18_Witness ==
  /\ stopper = "closing" /\ ~wd.isRunning
  /\ ENABLED StopLock
  /\ LiveLoops # {}

\* C19: a check goes on to the cooldown test exactly when its statistics were
\* fetched and reach the CPU or the inbound-rate threshold, and otherwise ends
\* without alert and without touching lastAlertTime; the cooldown test admits
\* the alert exactly when now - lastAlertTime >= cooldown, stamps lastAlertTime
\* with now and the alert is sent next, and otherwise ends the check with
\* lastAlertTime as it was; alerts are sent by admitted checks only, the first
\* breaching check is admitted, and two admissions are a cooldown apart
C19_AlertIffBreachAndCooldown ==
  [][/\ \A i \in 1..Len(threads) :
          /\ (threads[i].pc = "sample" /\ threads'[i].pc # "sample") =>
                \A ok \in BOOLEAN, stats \in Samples :
                  CheckSample(i, ok, stats) =>
                    /\ wd' = wd /\ alertLog' = alertLog
                    /\ threads'[i].sends = threads[i].sends
                    /\ threads'[i].pc = "gate"
                         <=> (ok /\ (stats.cpu >= CPUThreshold
                                     \/ stats.rx >= NetworkThreshold))
                    /\ threads'[i].pc # "alert"
          /\ (threads[i].pc = "gate" /\ CheckGate(i)) =>
                /\ IF now - wd.lastAlertTime >= AlertCooldown
                   THEN /\ wd'.lastAlertTime = now
                        /\ alertLog' = Append(alertLog, now)
                        /\ threads'[i].pc = "alert"
                   ELSE /\ wd' = wd /\ alertLog' = alertLog
                        /\ threads'[i].pc \notin {"alert", "gate"}
                        /\ threads'[i].sends = threads[i].sends
                /\ alertLog = <<>> => threads'[i].pc = "alert"
          /\ threads'[i].sends # threads[i].sends =>
                /\ CheckAlert(i) /\ threads'[i].sends = threads[i].sends + 1
                /\ wd' = wd
     /\ \A j \in 1..Len(alertLog) :
          j > 1 => alertLog[j] - alertLog[j - 1] >= AlertCooldown]_vars

\* the first breaching check alerted at once, and the next alert came exactly
\* one cooldown later and was sent
C19_Witness ==
  /\ Len(alertLog) = 2
  /\ alertLog[1] = BootTime
  /\ alertLog[2] = BootTime + AlertCooldown
  /\ wd.lastAlertTime = now
  /\ SumSends(threads) = 2

\* the pattern `#user_(\d+)` occurs in the text
HasTag(text) == \E i \in 1..Len(text) : MatchesAt(text, i)

\* C20: a staff reply to a group message that carries no tag in its text, in
\* its caption or in the text it replies to, and no original sender, and a
\* group message that replies to nothing, deliver nothing to any actor, leave
\* every ticket as it was and answer nothing to staff
C20_NoRouteDropped ==
  [][\A a \in AdminIDs :
       /\ delivered'.via \in {"dropped", "group"} =>
            \A r \in {staffPosts} \cup OtherPosts, sent \in BOOLEAN :
              (/\ handleSupportGroupMessage(a, r, sent)
               /\ ~HasTag(r.text) /\ ~HasTag(r.caption) /\ ~HasTag(r.parentText)
               /\ r.originalSender = 0)
                => /\ delivered'.to = 0 /\ delivered'.via = "dropped"
                   /\ tickets' = tickets
                   /\ resp'.msg = "none"
       /\ (routed' = NoRoute /\ handleSupportGroupNoReply(a))
            => /\ delivered' = NoDelivery
               /\ tickets' = tickets
               /\ resp'.msg = "none"]_vars

\* a reply to a plain group message was dropped while a ticket is waiting
C20_Witness ==
  /\ delivered.via = "dropped"
  /\ resp.msg = "none"
  /\ \E u \in Actors : tickets[u].status = "waiting"

\* the actors whose ticket differs between the two states of a step
TicketsTouched == {a \in Actors : tickets'[a] # tickets[a]}

\* C21: a forwarded message of an actor without ticket creates the actor's
\* ticket, waiting and with count 1; a forwarded message of an actor with a
\* ticket makes it waiting and adds exactly 1 to its count; the registry maps
\* each actor to one ticket or none, a ticket that exists has counted at least
\* one message, and every forward, reply or close changes the ticket of the
\* actor it is about and of nobody else
C21_TicketUpsert ==
  [][/\ \A a \in Actors :
          /\ (/\ routed'.actor = a
              /\ routed'.handlers = <<"HandleSupportUserMessage">>
              /\ resp'.msg = "Forwarded")
               => /\ tickets'[a].status = "waiting"
                  /\ tickets'[a].count = IF tickets[a] = NoTicket THEN 1
                                         ELSE tickets[a].count + 1
                  /\ TicketsTouched \subseteq {a}
          /\ tickets[a].status = "none" <=> tickets[a].count = 0
     /\ DOMAIN tickets' = Actors
     /\ Cardinality(TicketsTouched) <= 1
     /\ \/ TicketsTouched \subseteq {routed'.actor, delivered'.to}
        \/ \E a \in TicketsTouched, e \in TicketEnvs : HandleTicketSolve(a, e)]_vars

\* one actor's second message was forwarded while the other actor's ticket
\* has been answered
C21_Witness ==
  \E a, b \in Actors :
    /\ a # b
    /\ routed.actor = a /\ resp.msg = "Forwarded"
    /\ tickets[a] = [status |-> "waiting", count |-> 2]
    /\ tickets[b].status = "replied"

\* C22: when a reply written in the support group is routed to an actor and
\* the delivery succeeds, the actor's ticket becomes replied if there is one
\* and none appears if there is none; when the delivery fails the actor's
\* ticket is as before; nobody else's ticket changes
C22_ReplyMarksTicket ==
  [][delivered'.via = "group" =>
       /\ delivered'.to \in Actors
       /\ tickets'[delivered'.to] =
            IF delivered'.ok /\ tickets[delivered'.to] # NoTicket
            THEN [status |-> "replied", count |-> tickets[delivered'.to].count]
            ELSE tickets[delivered'.to]
       /\ TicketsTouched \subseteq {delivered'.to}]_vars

\* a reply reached an actor whose ticket had been closed: no ticket came back
\* while the other actor's ticket is still waiting
C22_Witness ==
  /\ delivered.via = "group" /\ delivered.ok
  /\ tickets[delivered.to] = NoTicket
  /\ \E b \in Actors : tickets[b].status = "waiting"

\* C23 (as claimed): after a close by staff or by the actor, the actor is not
\* in support mode and has no ticket; a close for an actor whose ticket is
\* already closed changes neither the registry nor the support-mode flags and
\* sends the actor no second notification
C23_CloseIdempotent ==
  [][\A u \in Actors :
       (\/ (delivered'.via = "close" /\ delivered'.to = u)
        \/ \E e \in TicketEnvs : HandleTicketSolve(u, e))
         => /\ u \notin userInSupport' /\ tickets'[u] = NoTicket
            /\ (tickets[u] = NoTicket /\ u \notin userInSupport)
                 => /\ tickets' = tickets /\ userInSupport' = userInSupport
                    /\ ~(delivered'.via = "close" /\ delivered'.ok)]_vars

\* C24: the sale reports active exactly when its percentage is positive and
\* the clock is before its expiry; a stop of an active sale leaves it
\* inactive; once the expiry has passed, cleared or not, the reported
\* discount is 0 and the base price is not reduced
C24_ActiveIffInWindow ==
  [][/\ IsActive(flashSale', now') <=>
          (flashSale'.discountPercent > 0 /\ now' < flashSale'.endTime)
     /\ resp'.msg = "SaleStopped" => ~IsActive(flashSale', now')
     /\ now' >= flashSale'.endTime =>
          /\ GetDiscount(flashSale', now') = 0
          /\ ApplyDiscount(flashSale', now', BasePrice) = BasePrice
     /\ (reader'.handler = "HandlePlanSelect" /\ reader.pc # "done" /\ reader'.pc = "done"
          /\ now >= flashSale.endTime) => reader'.price = reader'.originalPrice]_vars

C24_Witness ==
  /\ flashSale.discountPercent > 0 /\ now >= flashSale.endTime
  /\ reader.handler = "HandlePlanSelect" /\ reader.pc = "done"
  /\ reader.price = BasePrice

\* C25: the quick sale of 50 percent for 6 hours, set at T0, expires at
\* T0 + 6h; at T0 + 1h it is active and the price 450 resolves to 225, at
\* T0 + 7h it is inactive and 450 resolves to 450
C25_FiftyPercentSixHours ==
  [][/\ (\E a \in AdminIDs : HandleFlashQuick(a, 50, 6))
          => flashSale' = [discountPercent |-> 50, endTime |-> now + 6 * MinutesPerHour]
     /\ (flashSale'.discountPercent = 50 /\ now' = flashSale'.endTime - 5 * MinutesPerHour)
          => /\ IsActive(flashSale', now')
             /\ ApplyDiscount(flashSale', now', 450) = 225
     /\ (flashSale'.discountPercent = 50 /\ now' = flashSale'.endTime + MinutesPerHour)
          => /\ ~IsActive(flashSale', now')
             /\ ApplyDiscount(flashSale', now', 450) = 450
     /\ (reader'.handler = "HandlePlanSelect" /\ reader.pc = "apply" /\ reader'.pc = "done"
          /\ flashSale.discountPercent = 50 /\ now < flashSale.endTime)
          => reader'.originalPrice = 450 /\ reader'.price = 225]_vars

C25_Witness ==
  /\ flashSale.discountPercent = 50 /\ now = flashSale.endTime + MinutesPerHour
  /\ reader.handler = "HandlePlanSelect" /\ reader.pc = "done"
  /\ reader.flashDiscount = 50 /\ reader.price = 225

\* the instants and the sale states of a run
Instants == {BootTime + h * MinutesPerHour : h \in 0..MaxHours}
SaleStates ==
  {FlashClear} \cup
  {[discountPercent |-> o[1], endTime |-> t + o[2] * MinutesPerHour] :
     o \in QuickOffers, t \in Instants}

\* C26 (as claimed): what a handler has read of the sale when it answers is
\* the reading of one sale state at one instant: the percentage shown, the
\* expiry shown and the reduction applied to the price belong together, so
\* no sale is shown with an unreduced price or with a percentage of 0
C26_ConsistentRead ==
  reader.pc = "done" =>
    \E f \in SaleStates, t \in Instants :
      /\ reader.handler = "HandlePlanSelect" =>
           /\ reader.flashDiscount = GetDiscount(f, t)
           /\ reader.price = ApplyDiscount(f, t, reader.originalPrice)
      /\ reader.handler = "HandleAdmin" =>
           /\ reader.active = IsActive(f, t)
           /\ reader.active => /\ reader.flashDiscount = GetDiscount(f, t)
                               /\ reader.endTime = GetEndTime(f)

\* C27: no handler and no background task holds two mutexes, or one mutex
\* twice, at the same time, and in every state with a task in flight some
\* task can make its next lock call or return
C27_OneLockAtATime ==
  /\ \A i \in 1..MaxTasks :
       /\ Cardinality(HeldW(i) \cup HeldR(i)) <= 1
       /\ HeldW(i) \cap HeldR(i) = {}
       /\ (Rest(i) # <<>> /\ Head(Rest(i)).op \in {"Lock", "RLock"})
            => HeldW(i) \cup HeldR(i) = {}
  /\ (\E i \in 1..MaxTasks : tasks[i].prog # "none")
       => \E i \in 1..MaxTasks : CanProceed(i) \/ (tasks[i].prog # "none" /\ Rest(i) = <<>>)
  /\ \A i \in 1..MaxTasks :
       (Rest(i) # <<>> /\ ~CanProceed(i))
         => \E j \in 1..MaxTasks :
              /\ j # i
              /\ \/ Head(Rest(i)).mu \in HeldW(j) \cup HeldR(j) /\ CanProceed(j)
                 \/ tasks[j].waiting /\ Head(Rest(j)).mu = Head(Rest(i)).mu

\* a writer waits for a mutex that two readers hold
C27_Witness ==
  \E i, j, k \in 1..MaxTasks :
    /\ i # j /\ "tracker" \in HeldR(i) /\ "tracker" \in HeldR(j)
    /\ tasks[k].prog = "HandleTicketSolve" /\ tasks[k].waiting /\ ~CanProceed(k)

\* C28 (as claimed): when a purchase from the balance was debited and its
\* provisioning or extension step failed, the actor's balance is afterwards
\* what it was before the purchase and no months were created or added
C28_RefundRestoresBalance ==
  (account.actor # 0 /\ resp.msg \in {"CreateErrorRefunded", "ExtendErrorRefunded"})
    => /\ account.balance = account.before
       /\ account.months = 0

\* C29 (as claimed): a staff actor who enters the broadcast wizard, key
\* issuance or the promo wizard has afterwards no slot in a flow that the
\* router tests later: user search and top-up, key issuance, the promo wizard
\* and promo deletion after broadcast; the promo wizard and promo deletion
\* after key issuance; promo deletion after the promo wizard
C29_EntryClearsLower ==
  [][\A a \in AdminIDs :
       /\ (resp'.msg = "SendPayload" /\ HandleAdminBroadcast(a))
            => /\ addBalTo'[a] = 0 /\ a \notin searchWaiting'
               /\ issueSessions'[a] = NoIssue
               /\ promoSessions'[a] = NoPromo /\ a \notin promoDeleteWaiting'
       /\ (resp'.msg = "ChooseProduct" /\ HandleIssueStart(a))
            => promoSessions'[a] = NoPromo /\ a \notin promoDeleteWaiting'
       /\ (resp'.msg = "EnterCode" /\ HandleAdminPromoCreate(a))
            => a \notin promoDeleteWaiting']_vars

\* C30 (as claimed): when a staff actor presses Cancel on the user-search
\* prompt or on the top-up prompt, the actor has afterwards neither the
\* user-search slot nor a top-up slot, so that the router passes no later
\* text to the search or to the amount step
C30_CancelDeletesSlot ==
  [][\A a \in AdminIDs :
       (/\ reader'.handler = "HandleAdmin"
        /\ a \in searchWaiting \/ addBalTo[a] # 0
        /\ HandleAdmin(a))
         => /\ a \notin searchWaiting'
            /\ addBalTo'[a] = 0]_vars

\* C31 (as claimed): while the broadcast of one staff actor awaits its
\* message or its confirmation, another staff actor who enters the broadcast
\* flow or presses its Cancel leaves the phase, the captured payload and the
\* ownership of the slot as they were
C31_OtherActorLeavesSlot ==
  [][\A b \in AdminIDs :
       (/\ resp'.msg \in {"SendPayload", "Cancelled"}
        /\ broadcast.waitingMsg \/ broadcast.waitingConfirm
        /\ broadcast.adminID \notin {0, b}
        /\ HandleAdminBroadcast(b) \/ HandleCancelBroadcast(b))
         => broadcast' = broadcast]_vars

(* ------------------- staff replies through the reply slot -------------- *)

\* the life of tickets as in NextTickets, with the support_reply button of
\* the ticket posts and its Cancel: staff answer either in the support group
\* or in the private chat through the reply slot
NextSlotReply ==
  \/ \E a \in RouterActors : HandleCreateTicket(a)
  \/ \E a \in RouterActors, t \in TicketContents, e \in TicketEnvs : OnText(a, t, e)
  \/ \E a \in AdminIDs, sent \in BOOLEAN : handleSupportGroupMessage(a, staffPosts, sent)
  \/ \E d \in UserPayloads : HandleSupportReplyStart(Sender, d)
  \/ HandleSupportCancelReply(Sender)
  \/ \E a \in RouterActors, e \in TicketEnvs : HandleTicketSolve(a, e)

SpecSlotReply == Init /\ [][NextSlotReply]_vars

\* C32 (as claimed): when the text of a staff actor in the support-reply slot
\* is delivered to the target actor, the target actor's ticket, if there is
\* one, is replied afterwards, as it is after a delivered reply from the
\* support group
C32_SlotReplyMarksTicket ==
  [][(/\ delivered'.via \in {"direct", "group"}
      /\ delivered'.ok
      /\ delivered'.to \in Actors
      /\ tickets[delivered'.to] # NoTicket)
       => tickets'[delivered'.to].status = "replied"]_vars

\* C33 (as claimed): for every combination of active slots, a photo of an
\* actor that the photo router passes to a handler goes to the handler that
\* the text router picks for a text of that actor: promo entry before support
\* mode for non-staff actors, the support reply before the broadcast payload
\* for staff
C33_PhotoSameRule ==
  \A a \in Actors :
    (Route(a) # <<>> /\ RoutePhoto(a) # <<>>) => RoutePhoto(a) = Route(a)

(* ------------------------- support dashboard --------------------------- *)

\* HandleInitDashboard in the support group: the dashboard message is sent
\* and its id is stored in the tracker
HandleInitDashboard(a, sendOk) ==
  /\ dash' = IF sendOk THEN [dash EXCEPT !.msgID = 1] ELSE dash
  /\ resp' = [msg |-> IF sendOk THEN "DashboardCreated" ELSE "DashboardError"]
  /\ Quiet
  /\ UNCHANGED <<bcVars, flVars, dbUsers, now, slotVars, tickets, staffPosts,
                 closeButtons, wdVars, tasks, store>>

\* GetAllTickets: the pointers of the tickets in the registry, read in one
\* read-locked section (their order plays no part in the counts)
GetAllTickets(t) == [a \in Actors |-> IF t[a] # NoTicket THEN "live" ELSE "none"]

\* GetWaitingCount: counted in a read-locked section of its own
GetWaitingCount(t) == Cardinality({a \in Actors : t[a].status = "waiting"})

\* the status the dashboard loop reads through the pointer of a listed ticket
StatusRead(d, t, a) == IF d.listed[a] = "live" THEN t[a].status ELSE d.listed[a]

\* UpdateDashboard, first part: return without a dashboard message, else
\* tickets := t.GetAllTickets()
UpdateDashboardList ==
  /\ dash.spawned /\ dash.pc = "idle"
  /\ dash' = IF dash.msgID = 0
             THEN [dash EXCEPT !.spawned = FALSE]
             ELSE [dash EXCEPT !.spawned = FALSE, !.pc = "listed", !.shown = FALSE,
                               !.listed = GetAllTickets(tickets)]
  /\ UNCHANGED <<bcVars, flVars, dbUsers, now, resp, slotVars, tickets, staffPosts,
                 closeButtons, wdVars, obsVars, tasks, store>>

\* waitingCount := t.GetWaitingCount(); totalCount := len(tickets)
UpdateDashboardCount ==
  /\ dash.pc = "listed"
  /\ dash' = [dash EXCEPT !.pc = "counted",
                          !.waitingCount = GetWaitingCount(tickets),
                          !.totalCount = Cardinality({a \in Actors : dash.listed[a] # "none"})]
  /\ UNCHANGED <<bcVars, flVars, dbUsers, now, resp, slotVars, tickets, staffPosts,
                 closeButtons, wdVars, obsVars, tasks, store>>

\* the text: the two counts and one line per listed ticket with the status
\* read from the ticket; without listed tickets the text carries no counts
UpdateDashboardRender ==
  /\ dash.pc = "counted"
  /\ dash' = [dash EXCEPT !.pc = "idle",
                          !.shown = dash.totalCount # 0,
                          !.listedWaiting =
                             Cardinality({a \in Actors :
                                            StatusRead(dash, tickets, a) = "waiting"})]
  /\ UNCHANGED <<bcVars, flVars, dbUsers, now, resp, slotVars, tickets, staffPosts,
                 closeButtons, wdVars, obsVars, tasks, store>>

\* tickets are opened, answered in the support group and closed by their
\* actors while the update goroutine that the handlers spawn renders the
\* dashboard
NextDash ==
  \/ \E sendOk \in BOOLEAN : HandleInitDashboard(Sender, sendOk)
  \/ \E a \in RouterActors : HandleCreateTicket(a)
  \/ \E a \in RouterActors, t \in TicketContents, e \in StaffReplyEnvs : OnText(a, t, e)
  \/ handleSupportGroupMessage(Sender, staffPosts, TRUE)
  \/ \E a \in NonStaffIDs, e \in StaffReplyEnvs : HandleTicketSolve(a, e)
  \/ UpdateDashboardList
  \/ UpdateDashboardCount
  \/ UpdateDashboardRender

SpecDash == Init /\ [][NextDash]_vars

\* C34 (as claimed): a dashboard text that carries the counts shows a waiting
\* count equal to the number of tickets it lists as waiting and not above the
\* total it shows, whatever ticket handlers ran while it was being rendered
C34_DashboardSnapshot ==
  dash.shown => /\ dash.waitingCount = dash.listedWaiting
                /\ dash.waitingCount <= dash.totalCount

(* --------------------------- promo wizard ------------------------------ *)

\* what the admins type in the promo wizard: numbers too short for a code,
\* words, a zero and a word between blanks
PromoTexts ==
  {<<"1", "2">>, <<"3">>, <<"a", "b", "c">>, <<"c", "b", "a">>, <<"0">>,
   <<" ", "a", "b", " ">>}

\* the typed code may exist already, and the creation may fail in the database
PromoEnvs ==
  {Env(<<>>, 0, TRUE, found, opOk, FALSE) : found \in BOOLEAN, opOk \in BOOLEAN}

\* the promo wizard of both admins: entry, Cancel and the typed steps
NextPromoWizard ==
  \/ \E a \in AdminIDs : HandleAdminPromoCreate(a)
  \/ \E a \in AdminIDs : HandleAdminPromoCancel(a)
  \/ \E a \in AdminIDs, t \in PromoTexts, e \in PromoEnvs : OnText(a, t, e)

SpecPromoWizard == Init /\ [][NextPromoWizard]_vars

\* the input passes the validation of the wizard step
ValidForStep(step, t, e) ==
  LET input == TrimSpace(t)
  IN CASE step = 1 -> Len(input) >= MinCodeLen /\ Len(input) <= MaxCodeLen /\ ~e.found
       [] step = 2 -> ParseFloat(input).ok /\ ParseFloat(input).val > 0
       [] step = 3 -> ParseInt(input).ok /\ ParseInt(input).val > 0
       [] OTHER -> FALSE

C36_StepThreeHasProduct ==
  \A a \in AdminIDs :
    issueSessions[a].step = 3 => issueSessions[a].productID \in Products

\* C37 (as claimed): the watchdog can be started again after a Stop, and a
\* Stop that follows the second Start returns normally: no call of Stop ends
\* in a panic
C37_RestartThenStop == stopper # "panicked"

(* ------------------- storage: concurrent requests ---------------------- *)

\* requests followed from their first query to their commit
MaxReqs == 3

\* the promo_codes row of the code the actors enter: created by an admin for
\* one activation
PromoRow == [amount |-> 100, maxActivations |-> 1, isActive |-> TRUE]

NewReq(kind, actor, pc, seen, amount) ==
  [kind |-> kind, actor |-> actor, pc |-> pc, seen |-> seen, amount |-> amount]

\* ActivatePromoForUser, steps 2 and 3, on the row GetPromoByCode returned
PromoAvailable(isActive, activationsUsed, maxActivations) ==
  isActive /\ ~(activationsUsed >= maxActivations)

\* ActivatePromoForUser up to the limit test: GetPromoByCode reads the row
ActivateRead(u) ==
  /\ Len(store.reqs) < MaxReqs
  /\ store' = [store EXCEPT !.reqs =
       Append(@, NewReq("promo", u,
                        IF PromoAvailable(PromoRow.isActive, store.activationsUsed,
                                          PromoRow.maxActivations)
                        THEN "used" ELSE "refused",
                        store.activationsUsed, PromoRow.amount))]
  /\ UNCHANGED <<bcVars, flVars, dbUsers, now, resp, slotVars, supVars, wdVars,
                 obsVars, tasks>>

\* DB.HasUserActivatedPromo
HasUserActivatedPromo(st, u) == u \in st.activations

\* ActivatePromoForUser, step 4
ActivateCheckUsed(i) ==
  /\ i \in DOMAIN store.reqs
  /\ store.reqs[i].kind = "promo" /\ store.reqs[i].pc = "used"
  /\ store' = [store EXCEPT !.reqs[i].pc =
       IF HasUserActivatedPromo(store, store.reqs[i].actor) THEN "refused"
       ELSE "activate"]
  /\ UNCHANGED <<bcVars, flVars, dbUsers, now, resp, slotVars, supVars, wdVars,
                 obsVars, tasks>>

\* DB.ActivatePromoCode: one transaction; the insert fails on
\* UNIQUE(promo_id, user_id), and a failed statement rolls everything back
ActivatePromoCode(st, u, amount, ok) ==
  IF ~ok \/ u \in st.activations THEN st
  ELSE [st EXCEPT !.activations = @ \cup {u},
                  !.activationsUsed = @ + 1,
                  !.balance[u] = @ + amount]

\* ActivatePromoForUser, step 5
ActivateCommit(i, ok) ==
  /\ i \in DOMAIN store.reqs
  /\ store.reqs[i].kind = "promo" /\ store.reqs[i].pc = "activate"
  /\ LET r == store.reqs[i]
         st == ActivatePromoCode(store, r.actor, r.amount, ok)
     IN store' = [st EXCEPT !.reqs[i].pc = IF st = store THEN "failed" ELSE "credited"]
  /\ UNCHANGED <<bcVars, flVars, dbUsers, now, resp, slotVars, supVars, wdVars,
                 obsVars, tasks>>

\* actors enter the promo code, each request in a handler goroutine of its own
NextPromoRace ==
  \/ \E u \in Actors : ActivateRead(u)
  \/ \E i \in 1..Len(store.reqs) : ActivateCheckUsed(i)
  \/ \E i \in 1..Len(store.reqs), ok \in BOOLEAN : ActivateCommit(i, ok)

SpecPromoRace == Init /\ [][NextPromoRace]_vars

\* C38 (as claimed): the promo code is activated at most maxActivations times
\* and at most once by each actor, and each activation has credited the
\* code's amount once, however the requests interleave
C38_ActivationLimit ==
  /\ store.activationsUsed <= PromoRow.maxActivations
  /\ Cardinality(store.activations) <= PromoRow.maxActivations
  /\ store.activationsUsed = Cardinality(store.activations)
  /\ \A u \in Actors :
       store.balance[u] = IF u \in store.activations THEN PromoRow.amount ELSE 0

\* the balance an actor may reach through top-ups: two monthly prices
MaxBalance == BasePrice + BasePrice

\* DB.AddUserBalance from a top-up: UPDATE users SET balance = balance + $1
TopUp(u, amount) ==
  /\ store.balance[u] + amount <= MaxBalance
  /\ store' = [store EXCEPT !.balance[u] = AddUserBalance(@, amount, TRUE)]
  /\ UNCHANGED <<bcVars, flVars, dbUsers, now, resp, slotVars, supVars, wdVars,
                 obsVars, tasks>>

\* HandlePayWithBalance / HandleExtendPay up to the debit: the price, the
\* user row and the balance test on that row
PayRead(u, months) ==
  /\ Len(store.reqs) < MaxReqs
  /\ LET price == PlanPrice(months)
     IN store' = [store EXCEPT !.reqs =
          Append(@, NewReq("pay", u,
                           IF store.balance[u] < price THEN "refused" ELSE "select",
                           store.balance[u], price))]
  /\ UNCHANGED <<bcVars, flVars, dbUsers, now, resp, slotVars, supVars, wdVars,
                 obsVars, tasks>>

\* DB.DeductBalance, first statement: SELECT balance, and the test on it
DeductSelect(i, ok) ==
  /\ i \in DOMAIN store.reqs
  /\ store.reqs[i].kind = "pay" /\ store.reqs[i].pc = "select"
  /\ LET r == store.reqs[i]
         balance == store.balance[r.actor]
     IN store' = [store EXCEPT !.reqs[i].seen = balance,
                               !.reqs[i].pc = IF ~ok \/ balance < r.amount
                                              THEN "failed" ELSE "update"]
  /\ UNCHANGED <<bcVars, flVars, dbUsers, now, resp, slotVars, supVars, wdVars,
                 obsVars, tasks>>

\* DB.DeductBalance, the rest: UPDATE users SET balance = balance - $1 on the
\* row as it is when the statement gets the row lock, the ledger entry and
\* the commit; a failure rolls back
DeductUpdate(i, ok) ==
  /\ i \in DOMAIN store.reqs
  /\ store.reqs[i].kind = "pay" /\ store.reqs[i].pc = "update"
  /\ LET r == store.reqs[i]
     IN store' = [store EXCEPT !.balance[r.actor] = IF ok THEN @ - r.amount ELSE @,
                               !.reqs[i].pc = IF ok THEN "debited" ELSE "failed"]
  /\ UNCHANGED <<bcVars, flVars, dbUsers, now, resp, slotVars, supVars, wdVars,
                 obsVars, tasks>>

\* the step after the debit, CreateSubscriptionSimple or ExtendSubscription,
\* and the credit when it fails
PayFinish(i, stepOk, creditOk) ==
  /\ i \in DOMAIN store.reqs
  /\ store.reqs[i].kind = "pay" /\ store.reqs[i].pc = "debited"
  /\ LET r == store.reqs[i]
     IN store' = [store EXCEPT !.balance[r.actor] =
                                  IF stepOk THEN @ ELSE AddUserBalance(@, r.amount, creditOk),
                               !.reqs[i].pc = IF stepOk THEN "done" ELSE "refunded"]
  /\ UNCHANGED <<bcVars, flVars, dbUsers, now, resp, slotVars, supVars, wdVars,
                 obsVars, tasks>>

\* an actor tops up and presses the pay button of a one-month plan, each
\* press in a handler goroutine of its own
NextDebitRace ==
  \/ \E u \in NonStaffIDs : TopUp(u, BasePrice)
  \/ \E u \in NonStaffIDs : PayRead(u, 1)
  \/ \E i \in 1..Len(store.reqs), ok \in BOOLEAN : DeductSelect(i, ok)
  \/ \E i \in 1..Len(store.reqs), ok \in BOOLEAN : DeductUpdate(i, ok)
  \/ \E i \in 1..Len(store.reqs), stepOk \in BOOLEAN, creditOk \in BOOLEAN :
       PayFinish(i, stepOk, creditOk)

SpecDebitRace == Init /\ [][NextDebitRace]_vars

\* C39 (as claimed): no purchase makes an actor's balance negative, also when
\* two purchases of the actor are processed at the same time
C39_BalanceNeverNegative == \A u \in Actors : store.balance[u] >= 0

\* C40: a payload is captured only from the actor who owns the wizard, and
\* while it is held neither it nor its owner is replaced; a confirm by an
\* actor who is not the owner, or with no payload awaiting confirmation
\* (none captured yet, cancelled, or confirmed already), answers that there
\* is nothing to send, starts no fan-out and leaves the broadcast state as it
\* was; a confirm that starts a fan-out is the owner's and sends the payload
\* that was held
C40_OnlyOwnerLaunches ==
  [][/\ (broadcast'.message # NoMessage /\ broadcast.message = NoMessage)
          => /\ routed'.handlers = <<"HandleBroadcastMessage">>
             /\ routed'.actor = broadcast'.adminID
             /\ broadcast.adminID = broadcast'.adminID
     /\ (broadcast'.message # NoMessage /\ broadcast.message # NoMessage)
          => /\ broadcast'.message = broadcast.message
             /\ broadcast'.adminID = broadcast.adminID
     /\ resp'.msg \in {"NoMessage", "Launched", "EnumFailed"} =>
          \A a \in AdminIDs, dbOk \in BOOLEAN :
            HandleConfirmBroadcast(a, dbOk) =>
              IF /\ broadcast.waitingConfirm
                 /\ broadcast.adminID = a
                 /\ broadcast.message # NoMessage
              THEN /\ Len(launches') = Len(launches) + 1
                   /\ launches'[Len(launches')].admin = a
                   /\ launches'[Len(launches')].msg = broadcast.message
                   /\ resp'.msg \in {"Launched", "EnumFailed"}
              ELSE /\ resp'.msg = "NoMessage"
                   /\ launches' = launches
                   /\ broadcast' = broadcast]_vars

\* the payload of one admin awaits confirmation and the confirm of another
\* actor was refused
C40_Witness ==
  /\ resp.msg = "NoMessage"
  /\ broadcast.waitingConfirm
  /\ broadcast.message # NoMessage
  /\ broadcast.adminID \in AdminIDs
  /\ launches = <<>>

====
